---- MODULE Spec2Model ----
(***************************************************************************)
(* Queue synchronisation engine of the job queue dashboard                 *)
(* (src/src/App.tsx, component QueueTable and its callers in App).         *)
(*                                                                         *)
(* Text is modelled as a sequence of one-character strings, a Job as a     *)
(* record, the Snapshot (`jobs`) and the Working Order (`rows`) as         *)
(* sequences of Jobs.  One action is one event of the single-threaded      *)
(* event loop: a user gesture, the arrival of a poll result, or the        *)
(* completion of a remote write.  React runs the effects that a state      *)
(* change schedules before the next event is handled, so every action      *)
(* includes the memo recomputation and the effects its assignments cause.  *)
(***************************************************************************)
EXTENDS Integers, Sequences, FiniteSets, TLC

(* ------------------------------ bounds -------------------------------- *)

\* number of distinct job ids the backend may hand out
MaxJobs == 3

\* remote writes that may be awaiting their response at the same time
MaxInFlight == 1

\* BATCH of the progress poller: 25 in the source, here scaled to the job lists
\* of the model
BATCH == 2

\* poll cycles of one poller that may be awaiting their fetches at the same time
MaxPending == 2

\* distinct progress reports a fetch may return
MaxProgress == 2

\* largest request sequence number of the statistics view
MaxStatsSeq == 4

\* statistics fetches that may be awaiting their response at the same time
MaxStatsInFlight == 2

\* distinct statistics a fetch may return
MaxStats == 2

\* bulk actions that may be awaiting their requests at the same time
MaxBulk == 1
MaxStopped == 1
MaxRows == 51
MaxRowReqs == 1

(* ------------------------- sequences and text ------------------------- *)

Range(s) == {s[i] : i \in 1..Len(s)}

\* Array.prototype.findIndex / indexOf, 1-based; 0 stands for -1
RECURSIVE FindFrom(_, _, _)
FindFrom(s, x, i) ==
  IF i > Len(s) THEN 0 ELSE IF s[i] = x THEN i ELSE FindFrom(s, x, i + 1)

IndexOf(s, x) == FindFrom(s, x, 1)

\* Array.prototype.filter for a set of admitted elements
RECURSIVE KeepIn(_, _)
KeepIn(s, keep) ==
  IF s = <<>> THEN <<>>
  ELSE IF Head(s) \in keep THEN <<Head(s)>> \o KeepIn(Tail(s), keep)
  ELSE KeepIn(Tail(s), keep)

\* all duplicate-free sequences over S of length at most n
RECURSIVE Arrangements(_, _)
Arrangements(S, n) ==
  IF n = 0 THEN {<<>>}
  ELSE {<<>>} \cup UNION {{<<x>> \o t : t \in Arrangements(S \ {x}, n - 1)} : x \in S}

Space == " "
Bar == "|"

\* String.prototype.toLowerCase on the letters the model uses
Lower(c) ==
  CASE c = "A" -> "a" [] c = "B" -> "b" [] c = "C" -> "c" [] c = "J" -> "j" [] OTHER -> c

ToLowerCase(t) == [i \in 1..Len(t) |-> Lower(t[i])]

\* String.prototype.trim
RECURSIVE TrimStart(_)
TrimStart(t) ==
  IF t # <<>> /\ Head(t) = Space THEN TrimStart(Tail(t)) ELSE t

RECURSIVE TrimEnd(_)
TrimEnd(t) ==
  IF t # <<>> /\ t[Len(t)] = Space THEN TrimEnd(SubSeq(t, 1, Len(t) - 1)) ELSE t

Trim(t) == TrimEnd(TrimStart(t))

\* String.prototype.split(sep) for a one-character separator
RECURSIVE SplitAcc(_, _, _)
SplitAcc(t, sep, cur) ==
  IF t = <<>> THEN <<cur>>
  ELSE IF Head(t) = sep THEN <<cur>> \o SplitAcc(Tail(t), sep, <<>>)
  ELSE SplitAcc(Tail(t), sep, Append(cur, Head(t)))

Split(t, sep) == SplitAcc(t, sep, <<>>)

\* String.prototype.includes
Includes(hay, needle) ==
  \E i \in 0..(Len(hay) - Len(needle)) :
    \A k \in 1..Len(needle) : hay[i + k] = needle[k]

\* Array.prototype.join(' ') over texts
RECURSIVE JoinWith(_, _)
JoinWith(parts, sep) ==
  IF parts = <<>> THEN <<>>
  ELSE IF Len(parts) = 1 THEN parts[1]
  ELSE parts[1] \o <<sep>> \o JoinWith(Tail(parts), sep)

Digit(n) ==
  CASE n = 0 -> "0" [] n = 1 -> "1" [] n = 2 -> "2" [] n = 3 -> "3" [] n = 4 -> "4"
    [] n = 5 -> "5" [] n = 6 -> "6" [] n = 7 -> "7" [] n = 8 -> "8" [] OTHER -> "9"

\* String(n) for 0 <= n <= 99
NumText(n) == IF n < 10 THEN <<Digit(n)>> ELSE <<Digit(n \div 10), Digit(n % 10)>>

(* -------------------------------- jobs -------------------------------- *)

Ids == 1..MaxJobs

STATUS_LIST ==
  <<"queued", "running", "pausing", "paused", "completed", "failed", "canceled">>

StatusText(s) ==
  CASE s = "queued" -> <<"q", "u", "e", "u", "e", "d">>
    [] s = "running" -> <<"r", "u", "n", "n", "i", "n", "g">>
    [] s = "pausing" -> <<"p", "a", "u", "s", "i", "n", "g">>
    [] s = "paused" -> <<"p", "a", "u", "s", "e", "d">>
    [] s = "completed" -> <<"c", "o", "m", "p", "l", "e", "t", "e", "d">>
    [] s = "failed" -> <<"f", "a", "i", "l", "e", "d">>
    [] OTHER -> <<"c", "a", "n", "c", "e", "l", "e", "d">>

\* the priorities the priority picker and the priority filter offer
PRIORITIES == 1..5

\* Job.priority is optional: NoPrio is the absent value
NoPrio == 0

\* Job.created_at is optional: NoDate is the absent value
NoDate == <<>>

\* formatLocal: dd/mm/yyyy hh:mi of an ISO timestamp; "-" stands for the en dash
\* shown when the timestamp is absent.
\* A timestamp is modelled by its [d, m, y, h, mi] fields in local time.
Pad(n) == IF n < 10 THEN <<"0">> \o NumText(n) ELSE NumText(n)

formatLocal(iso) ==
  IF iso = NoDate THEN <<"-">>
  ELSE Pad(iso[1]) \o <<"/">> \o Pad(iso[2]) \o <<"/">> \o NumText(iso[3] \div 100)
         \o Pad(iso[3] % 100) \o <<Space>> \o Pad(iso[4]) \o <<":">> \o Pad(iso[5])

Alice == <<"a", "l">>
Bob == <<"B", "o">>

\* the fields the backend reports for job i when nothing about it was edited
BaseJob(i) ==
  [id |-> i,
   name |-> <<"J", Digit(i)>>,
   owner |-> IF i % 2 = 1 THEN Alice ELSE Bob,
   status |-> STATUS_LIST[((i * 4 - 4) % 7) + 1],
   priority |-> ((i + 1) % 5) + 1,
   created_at |-> IF i % 2 = 0 THEN NoDate ELSE <<i, 7, 2024, 9, 5>>]

IdsOf(list) == [i \in 1..Len(list) |-> list[i].id]


(* ------------------------------ view filter --------------------------- *)

\* prioOverrides[id] when the map has no entry for id
NoOverride == 0

\* getPrio: the override when the job has one, else the stored priority, else 5
getPrio(j, overrides) ==
  IF overrides[j.id] # NoOverride THEN overrides[j.id]
  ELSE IF j.priority = NoPrio THEN 5 ELSE j.priority

\* .filter(Boolean) on texts: the empty text is dropped
RECURSIVE NonEmpty(_)
NonEmpty(parts) ==
  IF parts = <<>> THEN <<>>
  ELSE IF Head(parts) = <<>> THEN NonEmpty(Tail(parts))
  ELSE <<Head(parts)>> \o NonEmpty(Tail(parts))

haystack(j) ==
  ToLowerCase(JoinWith(NonEmpty(<<j.name,
                                  j.owner,
                                  StatusText(j.status),
                                  IF j.priority = NoPrio THEN <<>> ELSE NumText(j.priority),
                                  formatLocal(j.created_at)>>), Space))

qn(query) == ToLowerCase(Trim(query))

qParts(query) ==
  LET raw == Split(qn(query), Bar)
  IN NonEmpty([i \in 1..Len(raw) |-> Trim(raw[i])])

qOk(j, query) ==
  \/ qn(query) = <<>>
  \/ qParts(query) = <<>>
  \/ \A i \in 1..Len(qParts(query)) : Includes(haystack(j), qParts(query)[i])

\* mutant: completed jobs are hidden whether or not the toggle is on
PassesHidesCompleted(j, c, overrides) ==
  LET ownerOk == c.owner = {} \/ j.owner \in c.owner
      statusOk == c.status = {} \/ j.status \in c.status
      prioOk == c.prio = {} \/ getPrio(j, overrides) \in c.prio
      hideOk == j.status # "completed"
  IN ownerOk /\ statusOk /\ prioOk /\ hideOk /\ qOk(j, c.q)

\* mutant: the owner and the status allow-lists are alternatives
PassesOwnerOrStatus(j, c, overrides) ==
  LET ownerOk == c.owner = {} \/ j.owner \in c.owner
      statusOk == c.status = {} \/ j.status \in c.status
      prioOk == c.prio = {} \/ getPrio(j, overrides) \in c.prio
      hideOk == ~c.hide \/ j.status # "completed"
  IN (ownerOk \/ statusOk) /\ prioOk /\ hideOk /\ qOk(j, c.q)

\* the predicate of jobs.filter in filteredAll; c is the Filter Criteria record
Passes(j, c, overrides) ==
  LET ownerOk == c.owner = {} \/ j.owner \in c.owner
      statusOk == c.status = {} \/ j.status \in c.status
      prioOk == c.prio = {} \/ getPrio(j, overrides) \in c.prio
      hideOk == ~c.hide \/ j.status # "completed"
  IN ownerOk /\ statusOk /\ prioOk /\ hideOk /\ qOk(j, c.q)

RECURSIVE FilterJobs(_, _, _)
FilterJobs(list, c, overrides) ==
  IF list = <<>> THEN <<>>
  ELSE IF Passes(Head(list), c, overrides)
       THEN <<Head(list)>> \o FilterJobs(Tail(list), c, overrides)
       ELSE FilterJobs(Tail(list), c, overrides)

(* --------------------------- order reconciler ------------------------- *)

\* { ...old, ...fresh }: the fresh fields win, an absent optional field keeps the
\* value the row already had
Merge(old, fresh) ==
  [fresh EXCEPT !.priority = IF fresh.priority = NoPrio THEN old.priority ELSE @,
                !.created_at = IF fresh.created_at = NoDate THEN old.created_at ELSE @]

\* byId.get(id): the job of the filtered view with that id
ById(fa, id) == fa[IndexOf(IdsOf(fa), id)]

\* mutant: the rows that left the filtered view stay
SurvivorsKeepsVanished(prev, fa) ==
  [i \in 1..Len(prev) |->
     IF prev[i].id \in Range(IdsOf(fa)) THEN Merge(prev[i], ById(fa, prev[i].id)) ELSE prev[i]]

RECURSIVE Survivors(_, _)
Survivors(prev, fa) ==
  IF prev = <<>> THEN <<>>
  ELSE IF Head(prev).id \in Range(IdsOf(fa))
       THEN <<Merge(Head(prev), ById(fa, Head(prev).id))>> \o Survivors(Tail(prev), fa)
       ELSE Survivors(Tail(prev), fa)

\* mutant: the filter of the appended part is forgotten
NewcomersUnfiltered(prev, fa) == fa

RECURSIVE Newcomers(_, _)
Newcomers(prev, fa) ==
  IF fa = <<>> THEN <<>>
  ELSE IF Head(fa).id \in Range(IdsOf(prev))
       THEN Newcomers(prev, Tail(fa))
       ELSE <<Head(fa)>> \o Newcomers(prev, Tail(fa))

\* mutant: the dirty branch replaces like the clean one
ReconcileReplaces(prev, fa) == fa

\* mutant: the new jobs are put in front
ReconcileNewFirst(prev, fa) == Newcomers(prev, fa) \o Survivors(prev, fa)

\* the dirty branch of the rows effect
Reconcile(prev, fa) == Survivors(prev, fa) \o Newcomers(prev, fa)

\* ids.join('|'): the separator is no part of an id
JoinIds(ids) == JoinWith([i \in 1..Len(ids) |-> NumText(ids[i])], Bar)

\* arrayMove of @dnd-kit/sortable: take the element at `from` out, insert it at `to`
arrayMove(list, from, to) ==
  LET without == SubSeq(list, 1, from - 1) \o SubSeq(list, from + 1, Len(list))
  IN SubSeq(without, 1, to - 1) \o <<list[from]>> \o SubSeq(without, to, Len(without))

\* mutant: the clean branch forgets to refresh the reference
RowsEffectStaleRef(fa, isDirty, prev, ref) ==
  IF ~isDirty THEN [rows |-> fa, ref |-> ref]
  ELSE [rows |-> Reconcile(prev, fa), ref |-> ref]

\* the rows effect: replace when clean, reconcile when dirty
RowsEffect(fa, isDirty, prev, ref) ==
  IF ~isDirty THEN [rows |-> fa, ref |-> IdsOf(fa)]
  ELSE [rows |-> Reconcile(prev, fa), ref |-> ref]


(* -------------------------------- state ------------------------------- *)

VARIABLES
  jobs,                \* the Snapshot: useJobs().data
  ownerFilter,         \* owner allow-list
  statusFilter,        \* status allow-list
  prioFilter,          \* priority allow-list
  q,                   \* free-text query
  hideCompleted,       \* hide-completed toggle
  sortKey,             \* "manual", "name", "created_at", "status", "priority"
  sortDir,             \* "asc", "desc"
  prioOverrides,       \* Priority Override map: job id -> priority
  filteredAll,         \* the memoised filtered view
  rows,                \* the Working Order
  dirty,               \* the dirty flag
  lastServerOrderRef,  \* the last-saved reference (ids)
  inflight,            \* remote writes awaiting their response
  returned,            \* the handler the last event found disabled, or "none"
  toasts,              \* the titles of the toasts the last event pushed
  cursor,              \* the cursor of the running progress poller (0-based)
  progressMap,         \* the Progress Overlay: job id -> progress report
  pending,             \* the slices of the poll cycles awaiting their fetches
  polled,              \* the ticks since the poller last started a round at cursor 0
  selectedIds,         \* the Selection Set
  pageSize,            \* rows per page
  storage,             \* localStorage: the five keys of the dashboard
  mounted,             \* "no" before the first render; then "yes", "caught" when the
                       \* load effect left through its catch, "crashed" when it threw
  stats,               \* the statistics view: request sequence, job, data, flags, fetches
  bulk,                \* the bulk actions awaiting their requests
  confirm,             \* the confirm dialog and the action it holds
  stopped,             \* the poll cycles of stopped pollers awaiting their fetches
  pager,               \* the pagination: the number of table rows, the requested page
  val,                 \* the text typed into the confirm dialog
  rowReqs,             \* the requests of confirmed row actions awaiting their answer
  exports              \* the exports started: timer, status requests, notifications

vars ==
  <<jobs, ownerFilter, statusFilter, prioFilter, q, hideCompleted, sortKey, sortDir,
    prioOverrides, filteredAll, rows, dirty, lastServerOrderRef, inflight, returned,
    toasts, cursor, progressMap, pending, polled, selectedIds, pageSize, storage, mounted,
    stats, bulk, confirm, stopped, pager, val, rowReqs, exports>>

filterVars == <<ownerFilter, statusFilter, prioFilter, q, hideCompleted>>
sortVars == <<sortKey, sortDir>>
orderVars == <<rows, dirty, lastServerOrderRef>>
pollVars == <<cursor, progressMap, pending, polled>>
\* the state added after the poller: `lateVars` is what a poll of the job list
\* never writes
lateVars == <<pager, val, rowReqs, exports>>
auxVars == <<selectedIds, pageSize, storage, mounted, stats, bulk, confirm, stopped, lateVars>>

Criteria ==
  [owner |-> ownerFilter, status |-> statusFilter, prio |-> prioFilter,
   q |-> q, hide |-> hideCompleted]

isManual == sortKey = "manual"
searchActive == Len(Trim(q)) > 0
filtersApplied ==
  ownerFilter # {} \/ statusFilter # {} \/ prioFilter # {} \/ searchActive
filtersActive == filtersApplied \/ hideCompleted

\* mutant: only the sort key is looked at
manualReorderEnabledSortOnly == isManual

manualReorderEnabled == isManual /\ ~filtersActive

hasOrderChanged == JoinIds(IdsOf(rows)) # JoinIds(lastServerOrderRef)

\* a remote write awaiting its response
Req(kind, order, id, prio) == [kind |-> kind, order |-> order, id |-> id, prio |-> prio]

RemoveAt(s, i) == SubSeq(s, 1, i - 1) \o SubSeq(s, i + 1, Len(s))

\* the characters of the model in the order of their UTF-16 code units
CodeOrder ==
  <<" ", "-", "/", "0", "1", "2", "3", "4", "5", "6", "7", "8", "9", ":",
    "A", "B", "J", "T",
    "a", "b", "c", "d", "e", "f", "g", "h", "i", "j", "k", "l", "m", "n", "o", "p", "q",
    "r", "s", "t", "u", "v", "w", "x", "y", "z">>

Code(c) == CHOOSE i \in 1..Len(CodeOrder) : CodeOrder[i] = c

\* a < b on strings: at the first place where they differ a has the smaller code
\* unit, or a ends there
TextLess(a, b) ==
  \E x \in {a}, y \in {b} :
    \E i \in 1..Len(y) :
      /\ i <= Len(x) + 1
      /\ \A k \in 1..(i - 1) : x[k] = y[k]
      /\ i = Len(x) + 1 \/ Code(x[i]) < Code(y[i])

\* the ISO text of a timestamp, yyyy-mm-ddThh:mi; the absent one gives ''
IsoText(iso) ==
  IF iso = NoDate THEN <<>>
  ELSE NumText(iso[3] \div 100) \o Pad(iso[3] % 100) \o <<"-">> \o Pad(iso[2]) \o <<"-">>
         \o Pad(iso[1]) \o <<"T">> \o Pad(iso[4]) \o <<":">> \o Pad(iso[5])

\* av < bv for the values the sort key selects
KeyLess(a, b) ==
  \E x \in {a}, y \in {b} :
    CASE sortKey = "name" -> TextLess(x.name, y.name)
      [] sortKey = "created_at" -> TextLess(IsoText(x.created_at), IsoText(y.created_at))
      [] sortKey = "status" -> TextLess(StatusText(x.status), StatusText(y.status))
      [] sortKey = "priority" -> getPrio(x, prioOverrides) < getPrio(y, prioOverrides)
      [] OTHER -> FALSE

\* jobs.findIndex((j) => j.id === a.id), 1-based
SnapshotIndex(a) == IndexOf(IdsOf(jobs), a.id)

\* mutant: the tie-breaker follows the direction
cmpTieFollowsDirection(a, b) ==
  IF KeyLess(a, b) THEN (IF sortDir = "asc" THEN -1 ELSE 1)
  ELSE IF KeyLess(b, a) THEN (IF sortDir = "asc" THEN 1 ELSE -1)
  ELSE IF sortDir = "asc" THEN SnapshotIndex(a) - SnapshotIndex(b)
  ELSE SnapshotIndex(b) - SnapshotIndex(a)

\* the comparator of baseRows
cmp(a, b) ==
  IF KeyLess(a, b) THEN (IF sortDir = "asc" THEN -1 ELSE 1)
  ELSE IF KeyLess(b, a) THEN (IF sortDir = "asc" THEN 1 ELSE -1)
  ELSE SnapshotIndex(a) - SnapshotIndex(b)

\* Array.prototype.sort(cmp): cmp is a strict total order on rows with distinct
\* ids, so the sorted array has at place i the row that i - 1 rows precede
SortRows(list) ==
  CHOOSE sorted \in
    {[i \in 1..Len(arr) |->
        arr[CHOOSE k \in 1..Len(arr) :
              Cardinality({m \in 1..Len(arr) : cmp(arr[m], arr[k]) < 0}) = i - 1]] :
       arr \in {list}} : TRUE

baseRows == IF isManual THEN rows ELSE SortRows(filteredAll)

(* --------------------------- progress poller -------------------------- *)

\* progressMap[id] when the map has no entry for id
NoProgress == 0

\* the ids of the rows with status running or pausing, in table order
RECURSIVE idsAll(_)
idsAll(list) ==
  IF list = <<>> THEN <<>>
  ELSE IF Head(list).status \in {"running", "pausing"}
       THEN <<Head(list).id>> \o idsAll(Tail(list))
       ELSE idsAll(Tail(list))

\* mutant: a tick that finds nothing to poll leaves the overlay as it is
KeptOverlay(pm) == pm

\* setProgressMap({})
ClearedOverlay(pm) == [i \in Ids |-> NoProgress]

\* ticks that cover n ids
TicksNeeded(n) == (n + BATCH - 1) \div BATCH

\* `polled` when no round is under way.  Its fields: the active ids of the round,
\* the ticks run and the ids requested in it; the ids whose fetch failed and the
\* ids whose entry was deleted when the last poll cycle settled; whether the last
\* tick emptied an overlay that had entries.
NoRound ==
  [ids |-> <<>>, ticks |-> 0, asked |-> {}, failed |-> {}, evicted |-> {}, cleared |-> FALSE]

\* the round of consecutive ticks over one list of active ids that began at
\* cursor 0, after a tick at cursor c that requests slice
RoundAfter(pl, ids, c, slice) ==
  IF c = 0 /\ (pl.ids # ids \/ pl.ticks >= TicksNeeded(Len(ids)))
  THEN [NoRound EXCEPT !.ids = ids, !.ticks = 1, !.asked = Range(slice)]
  ELSE IF pl.ids = ids /\ pl.ticks >= 1 /\ pl.ticks < TicksNeeded(Len(ids))
  THEN [NoRound EXCEPT !.ids = ids, !.ticks = pl.ticks + 1,
                       !.asked = pl.asked \cup Range(slice)]
  ELSE NoRound

\* tick() up to its await, run over the table rows `list` with the poller state
\* cur, pend and the overlay pm
tick(list, cur, pend, pm, pl) ==
  LET ids == idsAll(list)
      c == IF cur >= Len(ids) THEN 0 ELSE cur
      last == IF c + BATCH < Len(ids) THEN c + BATCH ELSE Len(ids)
      slice == SubSeq(ids, c + 1, last)
  IN IF ids = <<>>
     THEN [cursor |-> cur, pending |-> pend, progressMap |-> ClearedOverlay(pm),
           polled |-> [NoRound EXCEPT !.cleared = \E i \in Ids : pm[i] # NoProgress]]
     ELSE [cursor |-> (c + BATCH) % Len(ids), pending |-> Append(pend, slice),
           progressMap |-> pm, polled |-> RoundAfter(pl, ids, c, slice)]

\* The table rows changed identity (restart) or not: the poller effect is
\* cleaned up and started again, with cursor 0 and an immediate tick; the cycles
\* of the stopped poller no longer write the overlay.
Repoll(restart) ==
  IF restart
  THEN \E list \in {baseRows'} : \E t \in {tick(list, 0, <<>>, progressMap, polled)} :
         /\ cursor' = t.cursor
         /\ pending' = t.pending
         /\ progressMap' = t.progressMap
         /\ polled' = t.polled
  ELSE UNCHANGED pollVars

(* --------------------------- persisted settings ----------------------- *)

\* localStorage.getItem(key): null when the key is absent, else the stored text
NoItem == [present |-> FALSE, text |-> <<>>]
Item(text) == [present |-> TRUE, text |-> text]

\* The text stored under a filter key is modelled by what JSON.parse makes of it:
\* "array" is the JSON text of an array with the given items, "other" a JSON text
\* of anything else (an object, a number, null), "invalid" a text that is no JSON,
\* "empty" the text ''.
JsonText(kind, items) == [kind |-> kind, items |-> items]

\* JSON.stringify of a filter list
JSONstringify(list) == JsonText("array", list)

\* JSON.parse: it throws on a text that is no JSON
JSONparse(text) ==
  [threw |-> text.kind \in {"invalid", "empty"},
   isArray |-> text.kind = "array",
   value |-> text.items]

\* localStorage.getItem(key) || '[]'
OrEmptyList(item) ==
  IF ~item.present \/ item.text.kind = "empty" THEN JsonText("array", {}) ELSE item.text

\* the texts that switch hide-completed on
HideOn == {<<"1">>, <<"t", "r", "u", "e">>}

\* The load effect of App: what the four setters are given (set is FALSE when the
\* effect left through its catch and no setter ran); raised tells whether an
\* error left the effect.
LoadFilters(st) ==
  LET o == JSONparse(OrEmptyList(st.ownerFilter))
      sf == JSONparse(OrEmptyList(st.statusFilter))
      pf == JSONparse(OrEmptyList(st.prioFilter))
      hide == st.hideCompletedJobs
  IN IF o.threw \/ sf.threw \/ pf.threw
     THEN [set |-> FALSE, raised |-> FALSE, owner |-> {}, status |-> {}, prio |-> {},
           hide |-> FALSE]
     ELSE [set |-> TRUE, raised |-> FALSE,
           owner |-> IF o.isArray THEN o.value ELSE {},
           status |-> IF sf.isArray THEN sf.value ELSE {},
           prio |-> IF pf.isArray THEN pf.value ELSE {},
           hide |-> hide.present /\ hide.text \in HideOn]

\* parseInt(text, 10) gives NaN when no digit follows the leading white space
NaN == -1

IsDigit(c) == \E n \in 0..9 : Digit(n) = c
DigitOf(c) == CHOOSE n \in 0..9 : Digit(n) = c

RECURSIVE ParseDigits(_, _)
ParseDigits(t, acc) ==
  IF t = <<>> \/ ~IsDigit(Head(t)) THEN acc
  ELSE ParseDigits(Tail(t), acc * 10 + DigitOf(Head(t)))

\* parseInt(text, 10) on texts without a sign: leading white space is skipped, the
\* digits that follow are read, whatever comes after them is ignored
parseInt(text) ==
  LET t == TrimStart(text)
  IN IF t = <<>> \/ ~IsDigit(Head(t)) THEN NaN ELSE ParseDigits(t, 0)

\* the page sizes the selector offers
PAGE_SIZES == {10, 25, 50}

\* mutant: the stored number is taken as it is
initialPageSizeUnchecked(st) ==
  LET saved == st.jobsPageSize
  IN IF saved.present /\ saved.text # <<>> THEN parseInt(saved.text) ELSE 25

initialPageSize(st) ==
  LET saved == st.jobsPageSize
      n == IF saved.present /\ saved.text # <<>> THEN parseInt(saved.text) ELSE 25
  IN IF n \in PAGE_SIZES THEN n ELSE 25

\* the Filter Criteria of a fresh dashboard
NoCriteria == [owner |-> {}, status |-> {}, prio |-> {}, q |-> <<>>, hide |-> FALSE]

\* localStorage after all five persist effects have run for criteria c and page
\* size ps
Persisted(c, ps) ==
  [ownerFilter |-> Item(JSONstringify(c.owner)),
   statusFilter |-> Item(JSONstringify(c.status)),
   prioFilter |-> Item(JSONstringify(c.prio)),
   hideCompletedJobs |-> Item(IF c.hide THEN <<"1">> ELSE <<"0">>),
   jobsPageSize |-> Item(NumText(ps))]

\* localStorage after the persist effect of the one setting `key` has run (the
\* free-text query has none)
Persist(st, c, ps, key) ==
  IF key \in DOMAIN st THEN [st EXCEPT ![key] = Persisted(c, ps)[key]] ELSE st

(* ----------------------------- job statistics ------------------------- *)

\* jobStats === null
NoStats == 0

\* statsJob === null
NoStatsJob == 0

\* the statistics view before it was ever opened; inflight holds, for every fetch
\* awaiting its response, the sequence number it captured and the job it asked for;
\* dropped tells whether the response handled last found a newer sequence number
NoStatsView ==
  [seq |-> 0, job |-> NoStatsJob, data |-> NoStats, loading |-> FALSE, error |-> FALSE,
   inflight |-> <<>>, dropped |-> FALSE]

closeStatsModal(s) ==
  [s EXCEPT !.seq = @ + 1, !.job = NoStatsJob, !.data = NoStats, !.error = FALSE,
            !.loading = FALSE]

\* fetchJobStats up to its await
fetchJobStats(s, jobId, resetData) ==
  [s EXCEPT !.seq = @ + 1,
            !.loading = TRUE,
            !.error = FALSE,
            !.data = IF resetData THEN NoStats ELSE @,
            !.inflight = Append(@, [seq |-> s.seq + 1, job |-> jobId])]

\* the effect on [jobs, statsJob]: the view is closed when its job left the Snapshot
StatsJobEffect(s, S) ==
  IF s.job # NoStatsJob /\ s.job \notin Range(IdsOf(S)) THEN closeStatsModal(s) ELSE s

\* mutant: the response is applied whatever its sequence number
AppliedStatsUnchecked(s, r, ok, res) ==
  [s EXCEPT !.data = IF ok THEN res ELSE @,
            !.error = IF ok THEN @ ELSE TRUE,
            !.loading = FALSE]

\* fetchJobStats after its await, for the fetch r: try, catch and finally each
\* compare the captured sequence number with the current one
AppliedStats(s, r, ok, res) ==
  IF s.seq = r.seq
  THEN [s EXCEPT !.data = IF ok THEN res ELSE @,
                 !.error = IF ok THEN @ ELSE TRUE,
                 !.loading = FALSE]
  ELSE s

(* -------------------------------- selection --------------------------- *)

\* the settings the selection effect depends on, by the key of their setter
SelectionDeps ==
  {"ownerFilter", "statusFilter", "prioFilter", "q", "jobsPageSize", "hideCompletedJobs"}

\* mutant: the page size is not among the dependencies
selectionEffectWithoutPageSize(sel, key) ==
  IF key \in SelectionDeps \ {"jobsPageSize"} THEN {} ELSE sel

\* the selection effect after the setter of `key` has changed its setting
selectionEffect(sel, key) == IF key \in SelectionDeps THEN {} ELSE sel

(* ------------------------------ bulk actions -------------------------- *)

BULK_KINDS == {"pause", "resume", "cancel", "delete"}

\* can(j) of doBulk
can(kind, j) ==
  CASE kind = "pause" -> j.status \in {"running", "queued"}
    [] kind = "resume" -> j.status \in {"paused", "pausing"}
    [] kind = "cancel" -> j.status = "running"
    [] kind = "delete" -> j.status # "running" /\ j.status # "pausing"
    [] OTHER -> FALSE

\* targets of doBulk, for the filtered view fa and the selection sel of the render
\* whose doBulk runs
targets(kind, fa, sel) ==
  IdsOf(SelectSeq(fa, LAMBDA r : r.id \in sel /\ can(kind, r)))

\* the toast of onPause, onResume, onCancel, onDelete of App: each catches the
\* error of its request
ItemToast(kind, ok) ==
  CASE kind = "pause" -> IF ok THEN "Paused" ELSE "Pause failed"
    [] kind = "resume" -> IF ok THEN "Resumed" ELSE "Resume failed"
    [] kind = "cancel" -> IF ok THEN "Canceled" ELSE "Cancel failed"
    [] OTHER -> IF ok THEN "Deleted" ELSE "Delete failed"

label(kind) ==
  CASE kind = "pause" -> "Paused"
    [] kind = "resume" -> "Resumed"
    [] kind = "cancel" -> "Canceled"
    [] OTHER -> "Deleted"

\* `${label} ${targets.length} job(s)`
BulkToast(kind, n) == label(kind) \o " " \o ToString(n) \o " job(s)"

\* mutant: the selection is cleared only when every delete succeeded
selectionAfterBulkIfAllSucceeded(kind, failed, sel) ==
  IF kind = "delete" /\ failed = {} THEN {} ELSE sel

\* doBulk after its await: the handlers of App never reject, so the try block runs
\* to its end whatever the requests gave; `failed` are the targets whose request
\* failed
selectionAfterBulk(kind, failed, sel) == IF kind = "delete" THEN {} ELSE sel

\* the toast doBulk pushes after its await
aggregateToast(kind, n, failed) == BulkToast(kind, n)

\* the text the confirm dialog asks for: requireText = 'confirm'
requireText == <<"c", "o", "n", "f", "i", "r", "m">>

\* mutant: a beginning of the required text is accepted
confirmOkForPrefix(text) ==
  /\ Len(ToLowerCase(Trim(text))) <= Len(requireText)
  /\ ToLowerCase(Trim(text)) = SubSeq(ToLowerCase(requireText), 1, Len(ToLowerCase(Trim(text))))

\* ConfirmModal: ok = val.trim().toLowerCase() === requireText.toLowerCase()
confirmOk(text) == ToLowerCase(Trim(text)) = ToLowerCase(requireText)

\* the row actions that ask for confirmation
ROW_KINDS == {"cancel", "delete", "reset", "resetFailed"}

\* RowActions: the menu items that are not disabled for job j
rowEnabled(kind, j) ==
  CASE kind = "cancel" -> j.status = "running"
    [] OTHER -> j.status \notin {"running", "pausing"}

\* the toast of the App handler of a row action
RowToast(kind, done) ==
  CASE kind = "cancel" -> IF done THEN "Canceled" ELSE "Cancel failed"
    [] kind = "delete" -> IF done THEN "Deleted" ELSE "Delete failed"
    [] kind = "reset" -> IF done THEN "Job reset" ELSE "Reset failed"
    [] OTHER -> IF done THEN "Failed tasks resetted" ELSE "Reset failed"

\* the confirm dialog when closed (the action a closed dialog holds cannot be
\* run); fa and selected are the filtered view and the selection of the render
\* that opened it, which the held action reads
NoConfirm == [open |-> FALSE, kind |-> "none", id |-> 0, fa |-> <<>>, selected |-> {}]

\* `pager` of the empty table: no row, page 1
NoPager == [len |-> 0, page |-> 1]

\* `stopped` when no stopped poller has fetches under way.  cycles: for each poll
\* cycle its slice and the table rows its poller was started for; last: the
\* reports fetched by the cycle of a stopped poller that settled last.
NoStopped == [cycles |-> <<>>, last |-> [i \in 1..MaxJobs |-> 0]]

\* State after a handler has assigned rowsH, dirtyH and refH: the rows effect runs
\* when the filtered view was recomputed or the dirty flag changed.
Settle(fa, faChanged, rowsH, dirtyH, refH) ==
  IF faChanged \/ dirtyH # dirty
  THEN RowsEffect(fa, dirtyH, rowsH, refH)
  ELSE [rows |-> rowsH, ref |-> refH]

\* the state of the components before localStorage is looked at
Constructed ==
  /\ jobs = <<>>
  /\ ownerFilter = {}
  /\ statusFilter = {}
  /\ prioFilter = {}
  /\ q = <<>>
  /\ hideCompleted = FALSE
  /\ sortKey = "manual"
  /\ sortDir = "asc"
  /\ prioOverrides = [i \in Ids |-> NoOverride]
  /\ filteredAll = <<>>
  /\ rows = <<>>
  /\ dirty = FALSE
  /\ lastServerOrderRef = <<>>
  /\ inflight = <<>>
  /\ returned = "none"
  /\ toasts = <<>>
  /\ cursor = 0
  /\ progressMap = [i \in Ids |-> NoProgress]
  /\ pending = <<>>
  /\ polled = NoRound
  /\ selectedIds = {}
  /\ pageSize = 25
  /\ stats = NoStatsView
  /\ bulk = <<>>
  /\ confirm = NoConfirm
  /\ stopped = NoStopped
  /\ pager = NoPager
  /\ val = <<>>
  /\ rowReqs = <<>>
  /\ exports = <<>>

\* the dashboard mounted in a browser that had nothing stored
Init ==
  /\ Constructed
  /\ storage = Persisted(NoCriteria, 25)
  /\ mounted = "yes"

(* ------------------------------ snapshot ------------------------------ *)

\* A poll of the job list completes with the list S: what it does to the table.
Refreshed(S) ==
  LET fa == FilterJobs(S, Criteria, prioOverrides)
      st == Settle(fa, TRUE, rows, dirty, lastServerOrderRef)
  IN /\ jobs' = S
     /\ filteredAll' = fa
     /\ rows' = st.rows
     /\ lastServerOrderRef' = st.ref
     /\ returned' = "none"
     /\ toasts' = <<>>
     /\ stats' = StatsJobEffect(stats, S)
     /\ UNCHANGED <<filterVars, sortVars, prioOverrides, dirty, inflight, selectedIds,
                    pageSize, storage, mounted, bulk, confirm, lateVars>>
     /\ Repoll(S # jobs)

\* A poll of the job list completes with the list S.  The fetches a stopped poller
\* left behind are not followed: their results are not applied (C34).
SnapshotArrives(S) == Refreshed(S) /\ UNCHANGED stopped


(* --------------------------- filter and sort -------------------------- *)

\* A filter setter ran: the filtered view is recomputed for criteria c and the
\* rows effect follows.
ApplyCriteria(c, op) ==
  LET fa == FilterJobs(jobs, c, prioOverrides)
      st == Settle(fa, TRUE, rows, dirty, lastServerOrderRef)
  IN /\ ownerFilter' = c.owner
     /\ statusFilter' = c.status
     /\ prioFilter' = c.prio
     /\ q' = c.q
     /\ hideCompleted' = c.hide
     /\ filteredAll' = fa
     /\ rows' = st.rows
     /\ lastServerOrderRef' = st.ref
     /\ returned' = "none"
     /\ toasts' = <<>>
     /\ selectedIds' = selectionEffect(selectedIds, op)
     /\ storage' = Persist(storage, c, pageSize, op)
     /\ UNCHANGED <<jobs, sortVars, prioOverrides, dirty, inflight, pageSize, mounted, stats,
                    bulk, confirm, stopped, lateVars>>
     /\ Repoll(TRUE)

Toggled(set, x) == IF x \in set THEN set \ {x} ELSE set \cup {x}

ownerOptions == {jobs[i].owner : i \in 1..Len(jobs)}

ToggleOwner(o) ==
  /\ o \in ownerOptions
  /\ ApplyCriteria([Criteria EXCEPT !.owner = Toggled(@, o)], "ownerFilter")

ClearOwners == ApplyCriteria([Criteria EXCEPT !.owner = {}], "ownerFilter")

ToggleStatus(s) ==
  /\ s \in Range(STATUS_LIST)
  /\ ApplyCriteria([Criteria EXCEPT !.status = Toggled(@, s)], "statusFilter")

ClearStatuses == ApplyCriteria([Criteria EXCEPT !.status = {}], "statusFilter")

TogglePrio(p) ==
  /\ p \in PRIORITIES
  /\ ApplyCriteria([Criteria EXCEPT !.prio = Toggled(@, p)], "prioFilter")

ClearPrios == ApplyCriteria([Criteria EXCEPT !.prio = {}], "prioFilter")

ToggleHideCompleted ==
  ApplyCriteria([Criteria EXCEPT !.hide = ~@], "hideCompletedJobs")

SetQ(text) ==
  /\ text # q
  /\ ApplyCriteria([Criteria EXCEPT !.q = text], "q")

toggleSort(key) ==
  /\ IF key = "manual" THEN sortKey' = "manual" /\ sortDir' = sortDir
     ELSE IF sortKey # key THEN sortKey' = key /\ sortDir' = "asc"
     ELSE sortKey' = sortKey /\ sortDir' = (IF sortDir = "asc" THEN "desc" ELSE "asc")
  /\ returned' = "none"
  /\ toasts' = <<>>
  /\ UNCHANGED <<jobs, filterVars, prioOverrides, filteredAll, orderVars, inflight, auxVars>>
  /\ Repoll(<<sortKey', sortDir'>> # <<sortKey, sortDir>>)

(* ------------------------------ reordering ---------------------------- *)

\* mutant: the move is made in the array of the Snapshot
ReorderedInSnapshot(rowsH, dirtyH, op, id) ==
  LET st == Settle(filteredAll, FALSE, rowsH, dirtyH, lastServerOrderRef)
  IN /\ rows' = st.rows
     /\ jobs' = rowsH
     /\ dirty' = dirtyH
     /\ lastServerOrderRef' = st.ref
     /\ returned' = "none"
     /\ toasts' = <<>>
     /\ UNCHANGED <<filterVars, sortVars, prioOverrides, filteredAll, inflight, auxVars>>
     /\ Repoll(TRUE)

\* A gesture handler assigned rowsH and dirtyH (the reference is not touched);
\* the filtered view is the one already memoised.
Reordered(rowsH, dirtyH, op, id) ==
  LET st == Settle(filteredAll, FALSE, rowsH, dirtyH, lastServerOrderRef)
  IN /\ rows' = st.rows
     /\ dirty' = dirtyH
     /\ lastServerOrderRef' = st.ref
     /\ returned' = "none"
     /\ toasts' = <<>>
     /\ UNCHANGED <<jobs, filterVars, sortVars, prioOverrides, filteredAll, inflight, auxVars>>
     /\ Repoll(TRUE)

\* The handler returned early; `returned` records it when the reason was that
\* manual reordering is disabled.
Ignored(op) ==
  /\ returned' = (IF manualReorderEnabled THEN "none" ELSE op)
  /\ toasts' = <<>>
  /\ UNCHANGED <<jobs, filterVars, sortVars, prioOverrides, filteredAll, orderVars,
                 inflight, pollVars, auxVars>>

\* the rows of the current page carry the drag handles and the row actions; with
\* fewer rows than the smallest page size every row is on the page
pageIds == Range(IdsOf(IF isManual THEN rows ELSE filteredAll))

onDragEnd(active, over) ==
  /\ active \in pageIds
  /\ over \in pageIds \cup {0}
  /\ LET a == IndexOf(IdsOf(rows), active)
         b == IndexOf(IdsOf(rows), over)
         next == arrayMove(rows, a, b)
     IN IF ~manualReorderEnabled \/ over = 0 \/ active = over \/ a = 0 \/ b = 0
        THEN Ignored("drag")
        ELSE Reordered(next, JoinIds(IdsOf(next)) # JoinIds(lastServerOrderRef),
                       "drag", active)

moveUp(id) ==
  /\ id \in pageIds
  /\ LET i == IndexOf(IdsOf(rows), id)
     IN IF ~manualReorderEnabled \/ i <= 1
        THEN Ignored("moveUp")
        ELSE Reordered(arrayMove(rows, i, i - 1), TRUE, "moveUp", id)

moveDown(id) ==
  /\ id \in pageIds
  /\ LET i == IndexOf(IdsOf(rows), id)
     IN IF ~manualReorderEnabled \/ i = 0 \/ i = Len(rows)
        THEN Ignored("moveDown")
        ELSE Reordered(arrayMove(rows, i, i + 1), TRUE, "moveDown", id)


(* ----------------------------- remote writes -------------------------- *)

\* Move to top: reorder locally, then send the full order; the priority update
\* follows when the reorder write has been answered.
\* mutant: the moved job is not taken out of the rest of the list
toTopKeepsMoved(id) ==
  /\ id \in pageIds
  /\ IF ~manualReorderEnabled
     THEN Ignored("toTop")
     ELSE LET i == IndexOf(IdsOf(rows), id)
              nextOrderIds == <<id>> \o IdsOf(rows)
          IN /\ Len(inflight) < MaxInFlight
             /\ rows' = (IF i = 0 THEN rows ELSE <<rows[i]>> \o RemoveAt(rows, i))
             /\ inflight' = Append(inflight, Req("topReorder", nextOrderIds, id, 1))
             /\ returned' = "none"
             /\ toasts' = <<>>
             /\ UNCHANGED <<jobs, filterVars, sortVars, prioOverrides, filteredAll,
                            dirty, lastServerOrderRef, auxVars>>
             /\ Repoll(TRUE)

toTop(id) ==
  /\ id \in pageIds
  /\ IF ~manualReorderEnabled
     THEN Ignored("toTop")
     ELSE LET i == IndexOf(IdsOf(rows), id)
              nextOrderIds == <<id>> \o IdsOf(RemoveAt(rows, i))
          IN /\ Len(inflight) < MaxInFlight
             /\ rows' = (IF i = 0 THEN rows ELSE <<rows[i]>> \o RemoveAt(rows, i))
             /\ inflight' = Append(inflight, Req("topReorder", nextOrderIds, id, 1))
             /\ returned' = "none"
             /\ toasts' = <<>>
             /\ UNCHANGED <<jobs, filterVars, sortVars, prioOverrides, filteredAll,
                            dirty, lastServerOrderRef, auxVars>>
             /\ Repoll(TRUE)

\* The Save Order button: it calls saveOrder only while reordering is enabled and
\* the order differs from the reference.
saveOrder ==
  IF ~(manualReorderEnabled /\ hasOrderChanged)
  THEN Ignored("saveOrder")
  ELSE /\ Len(inflight) < MaxInFlight
       /\ inflight' = Append(inflight, Req("save", IdsOf(rows), 0, 0))
       /\ returned' = "none"
       /\ toasts' = <<>>
       /\ UNCHANGED <<jobs, filterVars, sortVars, prioOverrides, filteredAll, orderVars,
                      pollVars, auxVars>>

\* onReorder of App: a toast for either outcome, no error leaves it
onReorder(ok) == IF ok THEN <<"Order saved">> ELSE <<"Failed to save order">>

\* what follows the awaited calls in saveOrder and in toTop: the flag is cleared
\* and the reference set to the order that was sent
Saved(order) ==
  LET st == Settle(filteredAll, FALSE, rows, FALSE, order)
  IN /\ dirty' = FALSE
     /\ rows' = st.rows
     /\ lastServerOrderRef' = st.ref
     /\ returned' = "none"
     /\ UNCHANGED <<jobs, filterVars, sortVars, prioOverrides, filteredAll, auxVars>>
     /\ Repoll(dirty)

\* the reorder write of saveOrder is answered
SaveResponds(n, ok) ==
  /\ n \in 1..Len(inflight)
  /\ inflight[n].kind = "save"
  /\ inflight' = RemoveAt(inflight, n)
  /\ Saved(inflight[n].order)
  /\ toasts' = onReorder(ok)

\* the reorder write of toTop is answered: the priority update is sent
TopReorderResponds(n, ok) ==
  /\ n \in 1..Len(inflight)
  /\ inflight[n].kind = "topReorder"
  /\ inflight' = [inflight EXCEPT ![n].kind = "topPrio"]
  /\ returned' = "none"
  /\ toasts' = onReorder(ok)
  /\ UNCHANGED <<jobs, filterVars, sortVars, prioOverrides, filteredAll, orderVars,
                 pollVars, auxVars>>

\* the priority update of toTop is answered
TopPriorityResponds(n, ok) ==
  /\ n \in 1..Len(inflight)
  /\ inflight[n].kind = "topPrio"
  /\ inflight' = RemoveAt(inflight, n)
  /\ Saved(inflight[n].order)
  /\ toasts' = (IF ok THEN <<"Moved to top">> ELSE <<"Failed to move to top">>)

(* --------------------------- priority override ------------------------ *)

\* PriorityCell.doSave: the override is set, then the write is sent
doSave(id, draft) ==
  /\ id \in pageIds
  /\ draft \in PRIORITIES
  /\ Len(inflight) < MaxInFlight
  /\ prioOverrides' = [prioOverrides EXCEPT ![id] = draft]
  /\ inflight' = Append(inflight, Req("prio", <<>>, id, draft))
  /\ returned' = "none"
  /\ toasts' = <<>>
  /\ UNCHANGED <<jobs, filterVars, sortVars, filteredAll, orderVars, pollVars, auxVars>>

\* mutant: onError leaves the override in place
PriorityRespondsKeepsOverride(n, ok) ==
  /\ n \in 1..Len(inflight)
  /\ inflight[n].kind = "prio"
  /\ inflight' = RemoveAt(inflight, n)
  /\ returned' = "none"
  /\ toasts' = (IF ok THEN <<>> ELSE <<"Failed to update priority">>)
  /\ UNCHANGED <<jobs, filterVars, sortVars, prioOverrides, filteredAll, orderVars,
                 pollVars, auxVars>>

\* the priority write of a PriorityCell is answered: onSaved keeps the override,
\* onError removes it
PriorityResponds(n, ok) ==
  /\ n \in 1..Len(inflight)
  /\ inflight[n].kind = "prio"
  /\ inflight' = RemoveAt(inflight, n)
  /\ prioOverrides' =
       (IF ok THEN prioOverrides ELSE [prioOverrides EXCEPT ![inflight[n].id] = NoOverride])
  /\ returned' = "none"
  /\ toasts' = (IF ok THEN <<>> ELSE <<"Failed to update priority">>)
  /\ UNCHANGED <<jobs, filterVars, sortVars, filteredAll, orderVars, pollVars, auxVars>>

(* ---------------------------- specifications -------------------------- *)

\* job lists the backend may return: any arrangement of distinct jobs
Snapshots ==
  {[i \in 1..Len(o) |-> BaseJob(o[i])] : o \in Arrangements(Ids, MaxJobs)}

\* The order reconciler: polls, the hide-completed toggle, the manual moves and
\* Save Order.
Next ==
  \/ \E S \in Snapshots : SnapshotArrives(S)
  \/ ToggleHideCompleted
  \/ \E a \in Ids, o \in Ids \cup {0} : onDragEnd(a, o)
  \/ \E id \in Ids : moveUp(id)
  \/ \E id \in Ids : moveDown(id)
  \/ saveOrder
  \/ \E n \in 1..MaxInFlight, ok \in BOOLEAN : SaveResponds(n, ok)

Spec == Init /\ [][Next]_vars

\* Number of conditions that disable manual reordering, counted by the values
\* ticked: the gate specification keeps it within MaxTicked.
MaxTicked == 1

Ticked ==
  Cardinality(ownerFilter) + Cardinality(statusFilter) + Cardinality(prioFilter)
    + (IF q = <<>> THEN 0 ELSE 1) + (IF hideCompleted THEN 1 ELSE 0)
    + (IF isManual THEN 0 ELSE 1)

\* the texts typed into the search box: nothing, a blank, a job name
Queries == {<<>>, <<Space>>, <<"j", "1">>}

SORT_KEYS == {"manual", "name", "created_at", "status", "priority"}

\* number of jobs in the backend's list in the gate specification
GateJobs == 2

\* the backend's list in id order and in the opposite order
GateSnapshots ==
  {[i \in 1..GateJobs |-> BaseJob(i)], [i \in 1..GateJobs |-> BaseJob(GateJobs + 1 - i)]}

\* The enablement gate: every filter, the sort key, every reordering gesture.
NextGate ==
  \/ \E S \in GateSnapshots : SnapshotArrives(S)
  \/ \E o \in {Alice, Bob} : ToggleOwner(o) /\ Ticked' <= MaxTicked
  \/ ClearOwners
  \/ \E s \in Range(STATUS_LIST) : ToggleStatus(s) /\ Ticked' <= MaxTicked
  \/ ClearStatuses
  \/ \E p \in PRIORITIES : TogglePrio(p) /\ Ticked' <= MaxTicked
  \/ ClearPrios
  \/ ToggleHideCompleted /\ Ticked' <= MaxTicked
  \/ \E text \in Queries : SetQ(text) /\ Ticked' <= MaxTicked
  \/ \E key \in SORT_KEYS : toggleSort(key) /\ Ticked' <= MaxTicked
  \/ \E a \in Ids, o \in Ids \cup {0} : onDragEnd(a, o)
  \/ \E id \in Ids : moveUp(id)
  \/ \E id \in Ids : moveDown(id)
  \/ \E id \in Ids : toTop(id)
  \/ saveOrder
  \/ \E n \in 1..MaxInFlight, ok \in BOOLEAN : SaveResponds(n, ok)
  \/ \E n \in 1..MaxInFlight, ok \in BOOLEAN : TopReorderResponds(n, ok)
  \/ \E n \in 1..MaxInFlight, ok \in BOOLEAN : TopPriorityResponds(n, ok)

SpecGate == Init /\ [][NextGate]_vars

\* job i as the backend reports it with stored priority p
WithPriority(i, p) == [BaseJob(i) EXCEPT !.priority = p]

\* stored priorities the backend reports in the priority specification
StoredChoices == {NoPrio, 2}

\* values picked in a priority cell in the priority specification
DraftChoices == {1, 2}

\* the backend's list in id order, each job with any of the stored priorities
PrioSnapshots ==
  {[i \in 1..MaxJobs |-> WithPriority(i, f[i])] : f \in [Ids -> StoredChoices]}

\* The priority override: polls that change stored priorities, priority edits and
\* their answers, and a move that makes the order dirty.
NextPrio ==
  \/ \E S \in PrioSnapshots : SnapshotArrives(S)
  \/ \E id \in Ids, draft \in DraftChoices : doSave(id, draft)
  \/ \E n \in 1..MaxInFlight, ok \in BOOLEAN : PriorityResponds(n, ok)
  \/ \E id \in Ids : moveUp(id)

SpecPrio == Init /\ [][NextPrio]_vars

(* -------------------------------- claims ------------------------------ *)

W == IdsOf(rows)

\* the ids of s that are in the set keep, in the order of s
Restrict(s, keep) == KeepIn(s, keep)

\* C1: when the reorder write of saveOrder fails in the dirty state, the dirty flag
\* stays true and the Working Order is left exactly as it was.
C1_SaveFailureKeepsPendingOrder ==
  [][\A n \in 1..MaxInFlight :
       (dirty /\ SaveResponds(n, FALSE)) => (dirty' /\ rows' = rows)]_vars

\* C2: when the reorder write of saveOrder succeeds in the dirty state, dirty
\* becomes false, the last-saved reference is the id list that was sent and the
\* Working Order still is that list.
C2_SaveSuccessKeepsSentOrder ==
  [][\A n \in 1..MaxInFlight :
       (dirty /\ SaveResponds(n, TRUE) /\ W = inflight[n].order)
         => (/\ ~dirty'
             /\ lastServerOrderRef' = inflight[n].order
             /\ IdsOf(rows') = inflight[n].order)]_vars

MoveStep ==
  \/ \E a \in Ids, o \in Ids \cup {0} : onDragEnd(a, o)
  \/ \E id \in Ids : moveUp(id)
  \/ \E id \in Ids : moveDown(id)

\* C3: after a drag, move-up or move-down that leaves the Working Order equal to
\* the last-saved order, the dirty flag is false.
C3_MovesBackToSavedOrderAreClean ==
  [][(MoveStep /\ IdsOf(rows') = lastServerOrderRef') => ~dirty']_vars

\* C4: a Snapshot arriving in the dirty state leaves the ids that are both in the
\* Working Order and in the (filtered) Snapshot in their Working-Order order.
C4_ReconcileKeepsSurvivorOrder ==
  [][\A S \in Snapshots :
       (dirty /\ SnapshotArrives(S))
         => LET both == Range(W) \cap Range(IdsOf(filteredAll'))
            IN Restrict(IdsOf(rows'), both) = Restrict(W, both)]_vars

\* a dirty Working Order took in a new job and kept its own order of the others
C4_Witness ==
  /\ dirty
  /\ W = <<2, 1, 3>>
  /\ IdsOf(jobs) = <<3, 1, 2>>
  /\ lastServerOrderRef = <<1, 2>>

\* C5: a Snapshot arriving in the dirty state makes the Working Order the surviving
\* ids in their Working-Order positions followed by the new ids in Snapshot order,
\* without the ids the Snapshot lacks; dirty stays true when the result differs
\* from the last-saved order.
C5_ReconcileAppendsAndDrops ==
  [][\A S \in Snapshots :
       (dirty /\ SnapshotArrives(S))
         => LET F == IdsOf(filteredAll')
            IN /\ IdsOf(rows') = Restrict(W, Range(F)) \o Restrict(F, Range(F) \ Range(W))
               /\ (IdsOf(rows') # lastServerOrderRef' => dirty')]_vars

\* the scenario of the specification with one job less: [B,A] dirty, poll [A,B,C]
C5_Witness ==
  /\ dirty
  /\ W = <<2, 1, 3>>
  /\ IdsOf(jobs) = <<1, 2, 3>>
  /\ lastServerOrderRef = <<1, 2>>

\* C6: reconciling a dirty Working Order with the same Snapshot twice gives what
\* reconciling it once gives.
C6_ReconcileIdempotent ==
  dirty =>
    \A S \in Snapshots :
      LET fa == FilterJobs(S, Criteria, prioOverrides)
      IN Reconcile(Reconcile(rows, fa), fa) = Reconcile(rows, fa)

\* a dirty Working Order that a Snapshot with a dropped and a new job would change
C6_Witness ==
  /\ dirty
  /\ W = <<2, 1>>
  /\ \E S \in Snapshots : IdsOf(Reconcile(rows, S)) = <<1, 3>>

\* C7: when a Snapshot arrives in the dirty state and the reconciled order equals
\* the last-saved reference, the dirty flag becomes false.
C7_DirtyRecomputedOnSnapshot ==
  [][\A S \in Snapshots :
       (dirty /\ W # lastServerOrderRef /\ SnapshotArrives(S)
          /\ IdsOf(rows') = lastServerOrderRef')
         => ~dirty']_vars

ReorderingDisabled ==
  \/ ownerFilter # {}
  \/ statusFilter # {}
  \/ prioFilter # {}
  \/ Trim(q) # <<>>
  \/ hideCompleted
  \/ sortKey # "manual"

GestureStep ==
  \/ \E a \in Ids, o \in Ids \cup {0} : onDragEnd(a, o)
  \/ \E id \in Ids : moveUp(id)
  \/ \E id \in Ids : moveDown(id)
  \/ \E id \in Ids : toTop(id)
  \/ saveOrder

\* C9: while manual reordering is disabled, drag, move-up, move-down, move-to-top
\* and save leave the Working Order, the dirty flag and the last-saved reference
\* unchanged and send no remote write.
C9_DisabledGesturesAreNoOps ==
  [][(ReorderingDisabled /\ GestureStep)
       => UNCHANGED <<rows, dirty, lastServerOrderRef, inflight>>]_vars

\* move-to-top was asked for on a dirty order while a sort key was selected
C9_Witness ==
  /\ returned = "toTop"
  /\ sortKey # "manual"
  /\ dirty
  /\ Len(rows) >= 2

\* the job as the table shows it: a row of the Working Order in manual mode, a job
\* of the filtered view otherwise
Shown(list, id) == list[IndexOf(IdsOf(list), id)]

\* C10: when the write of a priority edit on job X fails, the override entry of X
\* is removed and the priority displayed for X is the priority stored for X in the
\* current Snapshot.
C10_PriorityRollback ==
  [][\A n \in 1..MaxInFlight :
       PriorityResponds(n, FALSE)
         => LET x == inflight[n].id
                shown == IF isManual THEN rows' ELSE filteredAll'
                stored == Shown(jobs', x).priority
            IN /\ prioOverrides'[x] = NoOverride
               /\ (x \in Range(IdsOf(shown)) /\ x \in Range(IdsOf(jobs')) /\ stored # NoPrio)
                    => getPrio(Shown(shown, x), prioOverrides') = stored]_vars

\* a priority edit has just failed on a dirty Working Order of all jobs, each shown
\* with the stored priority 2 that a poll brought, and no override is left
C10_Witness ==
  /\ toasts = <<"Failed to update priority">>
  /\ dirty
  /\ Len(rows) = MaxJobs
  /\ prioOverrides = [i \in Ids |-> NoOverride]
  /\ \A i \in 1..Len(rows) :
       /\ Shown(jobs, rows[i].id).priority = 2
       /\ getPrio(rows[i], prioOverrides) = 2

(* ------------------- priority override and the priority filter -------- *)

\* priorities the backend stores and the user picks in the override specification
OverrideChoices == {1, 2}

\* the backend's list of GateJobs jobs in id order, each with any stored priority
OverrideSnapshots ==
  {[i \in 1..GateJobs |-> WithPriority(i, f[i])] : f \in [1..GateJobs -> OverrideChoices]}

\* The life of an override: polls that change stored priorities, priority edits
\* and their answers, and the priority chips of the filter bar.
NextOverride ==
  \/ \E S \in OverrideSnapshots : SnapshotArrives(S)
  \/ \E id \in Ids, draft \in OverrideChoices : doSave(id, draft)
  \/ \E n \in 1..MaxInFlight, ok \in BOOLEAN : PriorityResponds(n, ok)
  \/ \E p \in OverrideChoices : TogglePrio(p)

SpecOverride == Init /\ [][NextOverride]_vars

\* the list the table renders from
Displayed == IF isManual THEN rows ELSE filteredAll

\* C11: once no write is pending and the current Snapshot stores for job X the
\* priority of X's override (the override is confirmed), a later Snapshot that
\* stores a different priority for X is what is displayed for X.
C11_ConfirmedOverrideStopsMasking ==
  [][\A S \in OverrideSnapshots : \A x \in Ids :
       (/\ SnapshotArrives(S)
        /\ inflight = <<>>
        /\ prioOverrides[x] # NoOverride
        /\ x \in Range(IdsOf(jobs))
        /\ Shown(jobs, x).priority = prioOverrides[x]
        /\ x \in Range(IdsOf(S))
        /\ Shown(S, x).priority # prioOverrides[x]
        /\ x \in Range(IdsOf(Displayed')))
         => getPrio(Shown(Displayed', x), prioOverrides') = Shown(S, x).priority]_vars

\* C15: under a non-empty priority allow-list (and no other filter) a job of the
\* Snapshot is in the filtered view iff its displayed priority, the override if
\* present and the stored priority otherwise, is in the allow-list.
C15_PriorityFilterUsesDisplayedPriority ==
  (prioFilter # {} /\ ownerFilter = {} /\ statusFilter = {} /\ q = <<>> /\ ~hideCompleted)
    => \A i \in 1..Len(jobs) :
         (jobs[i].id \in Range(IdsOf(filteredAll)))
           <=> (getPrio(jobs[i], prioOverrides) \in prioFilter)

(* ------------------------------ the view filter ----------------------- *)

\* the status chips and the priority chips ticked in the filter specification
FilterStatusChoices == {"queued", "completed"}
FilterPrioChoices == {3, 4}

\* the texts typed into the search box in the filter specification
FilterQueries ==
  {<<>>,
   <<"J", "1">>,
   <<"j", "1", Bar, "j", "2">>,
   <<"a", "l", Space, "j", "1">>,
   <<"j", "1", Space, "a", "l">>,
   <<"q", "u", "e", Bar, "r", "u", "n", Space, "a", "l">>}

\* the backend's list of all jobs in id order and in the opposite order
FilterSnapshots ==
  {[i \in 1..MaxJobs |-> BaseJob(i)], [i \in 1..MaxJobs |-> BaseJob(MaxJobs + 1 - i)]}

\* The view filter: polls and every control of the filter bar.
NextFilter ==
  \/ \E S \in FilterSnapshots : SnapshotArrives(S)
  \/ \E o \in {Alice, Bob} : ToggleOwner(o)
  \/ ClearOwners
  \/ \E s \in FilterStatusChoices : ToggleStatus(s)
  \/ ClearStatuses
  \/ \E p \in FilterPrioChoices : TogglePrio(p)
  \/ ClearPrios
  \/ ToggleHideCompleted
  \/ \E text \in FilterQueries : SetQ(text)

SpecFilter == Init /\ [][NextFilter]_vars

\* free-text matching as the specification words it: whitespace separates terms,
\* '|' separates the alternatives of a term, every term needs one alternative
\* that is a substring of the job's text
TermsOf(query) == NonEmpty(Split(ToLowerCase(query), Space))
AlternativesOf(term) == NonEmpty(Split(term, Bar))
MatchesTerms(hay, query) ==
  \A t \in 1..Len(TermsOf(query)) :
    \E a \in 1..Len(AlternativesOf(TermsOf(query)[t])) :
      Includes(hay, AlternativesOf(TermsOf(query)[t])[a])

OnlyQuery == ownerFilter = {} /\ statusFilter = {} /\ prioFilter = {} /\ ~hideCompleted

\* C12: with the free-text query as the only filter, a job is in the filtered view
\* iff for every whitespace-separated term of the query one of its '|'
\* alternatives is a substring of the job's lower-cased text.
C12_QueryIsOrWithinAndAcross ==
  OnlyQuery =>
    \A i \in 1..Len(jobs) :
      (jobs[i].id \in Range(IdsOf(filteredAll))) <=> MatchesTerms(haystack(jobs[i]), q)

\* C13: with empty owner, status and priority lists, an empty query and
\* hide-completed off, the filtered view is the Snapshot: same jobs, same order.
C13_FilterIdentity ==
  (OnlyQuery /\ q = <<>>) => filteredAll = jobs

\* no criteria, and the Snapshot is the list of all jobs in the opposite order,
\* with a completed job in it
C13_Witness ==
  /\ OnlyQuery
  /\ q = <<>>
  /\ IdsOf(jobs) = [i \in 1..MaxJobs |-> MaxJobs + 1 - i]
  /\ \E i \in 1..Len(filteredAll) : filteredAll[i].status = "completed"

\* ids of the Snapshot's jobs that satisfy the five predicates at once
SatisfyAll ==
  {jobs[i].id : i \in
     {k \in 1..Len(jobs) :
        /\ ownerFilter = {} \/ jobs[k].owner \in ownerFilter
        /\ statusFilter = {} \/ jobs[k].status \in statusFilter
        /\ prioFilter = {} \/ getPrio(jobs[k], prioOverrides) \in prioFilter
        /\ qOk(jobs[k], q)
        /\ ~hideCompleted \/ jobs[k].status # "completed"}}

\* C14: the filtered view is the subsequence of the Snapshot, in Snapshot order,
\* of exactly the jobs that satisfy the owner, status, priority, free-text and
\* hide-completed predicates together.
C14_FilterIsConjunctionSubsequence ==
  /\ IdsOf(filteredAll) = Restrict(IdsOf(jobs), SatisfyAll)
  /\ \A k \in 1..Len(filteredAll) : filteredAll[k] = ById(jobs, filteredAll[k].id)

\* all five criteria are set and admit a proper, non-empty part of the Snapshot
C14_Witness ==
  /\ ownerFilter # {}
  /\ statusFilter # {}
  /\ prioFilter # {}
  /\ q # <<>>
  /\ hideCompleted
  /\ Len(filteredAll) >= 1
  /\ Len(filteredAll) < Len(jobs)

(* ------------------------------- sorting ------------------------------ *)

\* job i of the sort specification: jobs 1 and 2 share the name, the missing
\* timestamp and the displayed priority (5, absent for job 1), jobs 1 and 3 the status
SortJob(i) ==
  [id |-> i,
   name |-> IF i = 3 THEN <<"B", "3">> ELSE <<"J", "1">>,
   owner |-> Alice,
   status |-> IF i = 2 THEN "completed" ELSE "running",
   priority |-> IF i = 1 THEN NoPrio ELSE IF i = 2 THEN 5 ELSE 2,
   created_at |-> IF i = 3 THEN <<3, 7, 2024, 9, 5>> ELSE NoDate]

SortSnapshots ==
  {[i \in 1..Len(o) |-> SortJob(o[i])] : o \in Arrangements(Ids, MaxJobs)}

\* Sorting: polls, the column headers and the hide-completed toggle.
NextSort ==
  \/ \E S \in SortSnapshots : SnapshotArrives(S)
  \/ \E key \in SORT_KEYS : toggleSort(key)
  \/ ToggleHideCompleted

SpecSort == Init /\ [][NextSort]_vars

\* C16: under a sort key, the table rows are the filtered view ordered by the key
\* in the chosen direction; rows with equal keys are in ascending Snapshot index
\* in either direction; a missing created timestamp sorts as the earliest; and
\* sorting the result again gives the same sequence.
C16_SortIsStableAndDeterministic ==
  ~isManual =>
    /\ SortRows(baseRows) = baseRows
    /\ Len(baseRows) = Len(filteredAll)
    /\ Range(baseRows) = Range(filteredAll)
    /\ \A i, k \in 1..Len(baseRows) :
         i < k =>
           LET a == baseRows[i]
               b == baseRows[k]
           IN /\ (~KeyLess(a, b) /\ ~KeyLess(b, a)) => SnapshotIndex(a) < SnapshotIndex(b)
              /\ KeyLess(a, b) => sortDir = "asc"
              /\ KeyLess(b, a) => sortDir = "desc"
              /\ (sortKey = "created_at" /\ a.created_at = NoDate /\ b.created_at # NoDate)
                   => sortDir = "asc"
              /\ (sortKey = "created_at" /\ a.created_at # NoDate /\ b.created_at = NoDate)
                   => sortDir = "desc"

\* descending priority over the Snapshot [2, 3, 1]: jobs 2 and 1 tie on the
\* displayed priority 5 and come first in Snapshot order, job 3 follows
C16_Witness ==
  /\ sortKey = "priority"
  /\ sortDir = "desc"
  /\ IdsOf(jobs) = <<2, 3, 1>>
  /\ IdsOf(baseRows) = <<2, 1, 3>>

(* ---------------------------- poll cycles ----------------------------- *)

\* mutant: a failed fetch wipes the entry
MergedAll(pm, slice, results) ==
  [i \in Ids |-> IF i \in Range(slice) THEN results[i] ELSE pm[i]]

\* for (const [id, p] of entries) if (p) next[id] = p
Merged(pm, slice, results) ==
  [i \in Ids |-> IF i \in Range(slice) /\ results[i] # NoProgress THEN results[i] ELSE pm[i]]

\* mutant: nothing is evicted
EvictedNothing(pm, list) == pm

\* the keys without an active row in the table are deleted
Evicted(pm, list) ==
  [i \in Ids |-> IF i \in Range(idsAll(list)) THEN pm[i] ELSE NoProgress]

\* what the fetches of poll cycle n may give: for every id of its slice a report,
\* or NoProgress for a fetch that failed
Outcomes(n) ==
  [(IF n <= Len(pending) THEN Range(pending[n]) ELSE {}) -> 0..MaxProgress]

\* The 5 s interval of the running poller fires.
IntervalTick ==
  /\ idsAll(baseRows) = <<>> \/ Len(pending) < MaxPending
  /\ \E list \in {baseRows} : \E t \in {tick(list, cursor, pending, progressMap, polled)} :
       /\ cursor' = t.cursor
       /\ pending' = t.pending
       /\ progressMap' = t.progressMap
       /\ polled' = t.polled
  /\ returned' = "none"
  /\ toasts' = <<>>
  /\ UNCHANGED <<jobs, filterVars, sortVars, prioOverrides, filteredAll, orderVars, inflight, auxVars>>

\* All fetches of poll cycle n have settled: for an id of its slice results[id]
\* is the report fetched, or NoProgress when the fetch failed.
ProgressArrives(n, results) ==
  /\ n \in 1..Len(pending)
  /\ progressMap' = Evicted(Merged(progressMap, pending[n], results), baseRows)
  /\ pending' = RemoveAt(pending, n)
  /\ polled' =
       [polled EXCEPT
          !.failed = {i \in Range(pending[n]) : results[i] = NoProgress},
          !.evicted = {i \in Ids : /\ Merged(progressMap, pending[n], results)[i] # NoProgress
                                   /\ progressMap'[i] = NoProgress},
          !.cleared = FALSE]
  /\ returned' = "none"
  /\ toasts' = <<>>
  /\ UNCHANGED <<jobs, filterVars, sortVars, prioOverrides, filteredAll, orderVars, inflight,
                 cursor, auxVars>>

\* job i with status st
WithStatus(i, st) == [BaseJob(i) EXCEPT !.status = st]

\* the statuses the backend reports in the poller specification
PollStatuses == {"running", "pausing", "completed"}

\* the backend's list of all jobs in id order, each with any of the statuses
PollSnapshots ==
  {[i \in 1..MaxJobs |-> WithStatus(i, f[i])] : f \in [Ids -> PollStatuses]}

\* The progress poller: polls of the job list, interval ticks, settled fetches.
NextPoll ==
  \/ \E S \in PollSnapshots : SnapshotArrives(S)
  \/ IntervalTick
  \/ \E n \in 1..MaxPending : \E results \in Outcomes(n) :
       ProgressArrives(n, results)

SpecPoll == Init /\ [][NextPoll]_vars

\* C17: no poll cycle requests more than BATCH ids, and once TicksNeeded(N)
\* consecutive ticks over one list of N active ids have run, the first of them at
\* cursor 0, every id of the list has been requested.
C17_PollerCoversAllIdsWithinBound ==
  /\ \A n \in 1..Len(pending) : Len(pending[n]) <= BATCH
  /\ (polled.ids # <<>> /\ polled.ticks = TicksNeeded(Len(polled.ids)))
       => polled.asked = Range(polled.ids)

\* a poll cycle completes: its fetches settle, or its tick finds nothing to poll
CycleCompletes ==
  \/ \E n \in 1..MaxPending : \E results \in Outcomes(n) : ProgressArrives(n, results)
  \/ IntervalTick /\ idsAll(baseRows) = <<>>

\* C18: when a poll cycle has completed, every key of the progress map is the id
\* of a row of the table whose status is running or pausing.
C18_OverlayHoldsOnlyActiveJobs ==
  [][CycleCompletes
       => \A i \in Ids : progressMap'[i] # NoProgress => i \in Range(idsAll(baseRows'))]_vars

\* the cycle that just settled deleted the entry of job 1, which is completed,
\* and left the entry of an active job
C18_Witness ==
  /\ polled.evicted = {1}
  /\ Len(jobs) = MaxJobs
  /\ jobs[1].status = "completed"
  /\ progressMap[1] = NoProgress
  /\ \E i \in Range(idsAll(baseRows)) : progressMap[i] # NoProgress

\* C19: when the fetches of a slice settle, every report fetched is the overlay
\* entry of its id, and the entry of an id whose fetch failed and whose job is
\* still active is what it was.
C19_FailedFetchLeavesEntry ==
  [][\A n \in 1..MaxPending : \A results \in Outcomes(n) :
       ProgressArrives(n, results)
         => \A i \in Range(pending[n]) :
              /\ results[i] # NoProgress => progressMap'[i] = results[i]
              /\ (results[i] = NoProgress /\ i \in Range(idsAll(baseRows')))
                   => progressMap'[i] = progressMap[i]]_vars

\* in the cycle that just settled the fetch of job 2 failed and the fetch of job 1
\* succeeded: job 1 has the new report, job 2 still has its entry
C19_Witness ==
  /\ polled.failed = {2}
  /\ polled.asked = {1, 2}
  /\ progressMap[1] = 2
  /\ progressMap[2] = 1

\* a tick ran: the interval fired, or a changed Snapshot restarted the poller
TickRuns ==
  \/ IntervalTick
  \/ \E S \in PollSnapshots : S # jobs /\ SnapshotArrives(S)

\* C20: a tick that finds no row with status running or pausing leaves the
\* overlay empty and adds no poll cycle.
C20_IdleTickClearsOverlay ==
  [][(TickRuns /\ idsAll(baseRows') = <<>>)
       => /\ \A i \in Ids : progressMap'[i] = NoProgress
          /\ pending' = <<>> \/ pending' = pending]_vars

\* the last tick found all jobs completed and emptied an overlay that had entries
C20_Witness ==
  /\ polled.cleared
  /\ Len(jobs) = MaxJobs
  /\ idsAll(baseRows) = <<>>
  /\ \A i \in Ids : progressMap[i] = NoProgress

(* ------------------------------- selection ---------------------------- *)

\* the checkbox of a row of the page
toggleOne(id) ==
  /\ id \in pageIds
  /\ selectedIds' = Toggled(selectedIds, id)
  /\ returned' = "none"
  /\ toasts' = <<>>
  /\ UNCHANGED <<jobs, filterVars, sortVars, prioOverrides, filteredAll, orderVars, inflight,
                 pollVars, pageSize, storage, mounted, stats, bulk, confirm, stopped, lateVars>>

\* the checkbox of the table header
toggleAllFiltered(checked) ==
  /\ selectedIds' = (IF checked THEN Range(IdsOf(filteredAll)) ELSE {})
  /\ returned' = "none"
  /\ toasts' = <<>>
  /\ UNCHANGED <<jobs, filterVars, sortVars, prioOverrides, filteredAll, orderVars, inflight,
                 pollVars, pageSize, storage, mounted, stats, bulk, confirm, stopped, lateVars>>

\* the page-size selector: choosing the size already set changes nothing
setPageSize(n) ==
  /\ n \in PAGE_SIZES
  /\ n # pageSize
  /\ pageSize' = n
  /\ selectedIds' = selectionEffect(selectedIds, "jobsPageSize")
  /\ storage' = Persist(storage, Criteria, n, "jobsPageSize")
  /\ returned' = "none"
  /\ toasts' = <<>>
  /\ UNCHANGED <<jobs, filterVars, sortVars, prioOverrides, filteredAll, orderVars, inflight,
                 pollVars, mounted, stats, bulk, confirm, stopped, lateVars>>

\* The Selection Set: polls, every filter, the page size, the checkboxes.
NextSelect ==
  \/ \E S \in GateSnapshots : SnapshotArrives(S)
  \/ \E o \in {Alice, Bob} : ToggleOwner(o) /\ Ticked' <= MaxTicked
  \/ ClearOwners
  \/ \E st \in Range(STATUS_LIST) : ToggleStatus(st) /\ Ticked' <= MaxTicked
  \/ ClearStatuses
  \/ \E p \in PRIORITIES : TogglePrio(p) /\ Ticked' <= MaxTicked
  \/ ClearPrios
  \/ ToggleHideCompleted /\ Ticked' <= MaxTicked
  \/ \E text \in Queries : SetQ(text) /\ Ticked' <= MaxTicked
  \/ \E n \in PAGE_SIZES : setPageSize(n)
  \/ \E id \in Ids : toggleOne(id)
  \/ \E checked \in BOOLEAN : toggleAllFiltered(checked)

SpecSelect == Init /\ [][NextSelect]_vars

\* the settings whose change invalidates the selection
SelectionCriteria ==
  <<ownerFilter, statusFilter, prioFilter, q, hideCompleted, pageSize>>

\* C21: every step that changes the owner filter, the status filter, the priority
\* filter, the free-text query, the hide-completed flag or the page size leaves
\* the Selection Set empty.
C21_CriteriaChangeClearsSelection ==
  [][SelectionCriteria' # SelectionCriteria => selectedIds' = {}]_vars

\* the page size was changed over a view with a job in it, after the newest filter
\* change: nothing is selected
C21_Witness ==
  /\ pageSize = 50
  /\ statusFilter = {"queued"}
  /\ Len(filteredAll) >= 1
  /\ selectedIds = {}
  /\ storage.jobsPageSize = Item(<<"5", "0">>)

(* ----------------------------- job statistics ------------------------- *)

StatsFrame ==
  /\ returned' = "none"
  /\ toasts' = <<>>
  /\ UNCHANGED <<jobs, filterVars, sortVars, prioOverrides, filteredAll, orderVars, inflight,
                 pollVars, selectedIds, pageSize, storage, mounted, bulk, confirm, stopped,
                 lateVars>>

\* the statistics button of a row: setStatsJob, then the effect on statsJobId
\* fetches when the id changed, and the effect on [jobs, statsJob] runs
handleShowStats(id) ==
  /\ id \in pageIds
  /\ stats.seq < MaxStatsSeq
  /\ Len(stats.inflight) < MaxStatsInFlight
  /\ LET opened == [stats EXCEPT !.job = id]
     IN stats' = StatsJobEffect(IF id # stats.job THEN fetchJobStats(opened, id, TRUE)
                                ELSE opened, jobs)
  /\ StatsFrame

\* the retry button of the statistics view
retryStats ==
  /\ stats.job # NoStatsJob
  /\ stats.seq < MaxStatsSeq
  /\ Len(stats.inflight) < MaxStatsInFlight
  /\ stats' = fetchJobStats(stats, stats.job, FALSE)
  /\ StatsFrame

\* the close button of the statistics view
closeStats ==
  /\ stats.job # NoStatsJob
  /\ stats.seq < MaxStatsSeq
  /\ stats' = closeStatsModal(stats)
  /\ StatsFrame

\* api.jobStats of fetch n is answered: with the statistics res, or with an error
StatsResponds(n, ok, res) ==
  /\ n \in 1..Len(stats.inflight)
  /\ stats' = [AppliedStats(stats, stats.inflight[n], ok, res) EXCEPT
                 !.inflight = RemoveAt(@, n),
                 !.dropped = stats.inflight[n].seq # stats.seq]
  /\ StatsFrame

\* The statistics view: polls, opening, retrying and closing the view, answers.
NextStats ==
  \/ \E S \in GateSnapshots \cup {<<>>} : SnapshotArrives(S) /\ stats.seq < MaxStatsSeq
  \/ \E id \in Ids : handleShowStats(id)
  \/ retryStats
  \/ closeStats
  \/ \E n \in 1..MaxStatsInFlight, ok \in BOOLEAN, res \in 1..MaxStats :
       StatsResponds(n, ok, res)

SpecStats == Init /\ [][NextStats]_vars

\* the fetches awaiting their response captured increasing sequence numbers, none
\* above the current one
SeqsIncrease(s) ==
  \A i, k \in 1..Len(s.inflight) :
    /\ s.inflight[i].seq <= s.seq
    /\ i < k => s.inflight[i].seq < s.inflight[k].seq

\* what a response may write
StatsShown(s) == <<s.job, s.data, s.error, s.loading>>

\* C22: the fetches of job statistics capture strictly increasing sequence
\* numbers; a response, success or error, whose sequence number is no longer the
\* latest changes neither the data nor the error nor the loading state; and once
\* the view was closed or a newer fetch issued, every earlier fetch carries a
\* sequence number that is no longer the latest.
C22_StaleStatsResponseDiscarded ==
  [][/\ SeqsIncrease(stats')
     /\ stats'.seq >= stats.seq
     /\ ((closeStats \/ retryStats \/ \E id \in Ids : handleShowStats(id) /\ id # stats.job)
           => \A i \in 1..Len(stats.inflight) : stats.inflight[i].seq < stats'.seq)
     /\ \A n \in 1..MaxStatsInFlight, ok \in BOOLEAN, res \in 1..MaxStats :
          (StatsResponds(n, ok, res) /\ stats.inflight[n].seq # stats.seq)
            => StatsShown(stats') = StatsShown(stats)]_vars

\* the view was closed while its fetch was under way; the answer came afterwards
\* and was dropped: no job, no data, no error, not loading
C22_Witness ==
  /\ stats.dropped
  /\ stats.inflight = <<>>
  /\ StatsShown(stats) = <<NoStatsJob, NoStats, FALSE, FALSE>>

(* ------------------------------ bulk actions -------------------------- *)

ConfirmFrame ==
  /\ returned' = "none"
  /\ UNCHANGED <<jobs, filterVars, sortVars, prioOverrides, filteredAll, orderVars, inflight,
                 pollVars, pageSize, storage, mounted, stats, stopped, pager, exports>>

BulkFrame == ConfirmFrame /\ UNCHANGED <<val, rowReqs>>

\* doBulk up to its await, run by a render whose filtered view was fa and whose
\* selection was sel: one request per target; no target, no request
doBulk(kind, fa, sel) ==
  /\ Len(bulk) < MaxBulk
  /\ bulk' = (IF targets(kind, fa, sel) = <<>> THEN bulk
              ELSE Append(bulk, [kind |-> kind, targets |-> targets(kind, fa, sel),
                                 open |-> Range(targets(kind, fa, sel)), failed |-> {}]))
  /\ toasts' = <<>>
  /\ UNCHANGED selectedIds
  /\ BulkFrame

\* the Pause, Resume and Cancel buttons call doBulk of the current render
bulkClick(kind) ==
  /\ kind \in BULK_KINDS \ {"delete"}
  /\ doBulk(kind, filteredAll, selectedIds)
  /\ UNCHANGED confirm

\* the Delete button: askConfirm keeps doBulk of the current render as the action
\* of the dialog
askConfirmDelete ==
  /\ confirm' = [open |-> TRUE, kind |-> "bulkDelete", id |-> 0,
                 fa |-> filteredAll, selected |-> selectedIds]
  /\ val' = <<>>
  /\ toasts' = <<>>
  /\ UNCHANGED <<bulk, selectedIds, rowReqs>>
  /\ ConfirmFrame

\* Cancel or a click beside the dialog
closeConfirm ==
  /\ confirm.open
  /\ confirm' = NoConfirm
  /\ toasts' = <<>>
  /\ UNCHANGED <<bulk, selectedIds>>
  /\ BulkFrame

\* the input of the dialog: setVal(e.target.value)
setVal(text) ==
  /\ confirm.open
  /\ val' = text
  /\ toasts' = <<>>
  /\ UNCHANGED <<bulk, selectedIds, confirm, rowReqs>>
  /\ ConfirmFrame

\* the request a confirmed row action sends
RowReq(kind, id) == [kind |-> kind, id |-> id]

\* the Confirm button, which calls onConfirm when the typed text is accepted: the
\* held action runs; the dialog closes when it is over
onConfirm ==
  /\ confirm.open
  /\ confirmOk(val)
  /\ IF confirm.kind = "bulkDelete"
     THEN /\ doBulk("delete", confirm.fa, confirm.selected)
          /\ confirm' = (IF bulk' # bulk THEN confirm ELSE NoConfirm)
     ELSE /\ Len(rowReqs) < MaxRowReqs
          /\ rowReqs' = Append(rowReqs, RowReq(confirm.kind, confirm.id))
          /\ toasts' = <<>>
          /\ UNCHANGED <<bulk, selectedIds, confirm, val>>
          /\ ConfirmFrame

\* the request for target id of bulk action b is answered: the handler of App
\* pushes its toast; after the last answer doBulk goes on behind its await
BulkResponds(b, id, ok) ==
  /\ b \in 1..Len(bulk)
  /\ id \in bulk[b].open
  /\ LET a == bulk[b]
         failed == a.failed \cup (IF ok THEN {} ELSE {id})
     IN IF a.open # {id}
        THEN /\ bulk' = [bulk EXCEPT ![b].open = @ \ {id}, ![b].failed = failed]
             /\ toasts' = <<ItemToast(a.kind, ok)>>
             /\ UNCHANGED <<selectedIds, confirm>>
        ELSE /\ bulk' = RemoveAt(bulk, b)
             /\ toasts' = <<ItemToast(a.kind, ok), aggregateToast(a.kind, Len(a.targets), failed)>>
             /\ selectedIds' = selectionAfterBulk(a.kind, failed, selectedIds)
             /\ confirm' = (IF a.kind = "delete" THEN NoConfirm ELSE confirm)
  /\ BulkFrame

\* the statuses the backend reports in the bulk specification
BulkStatuses == {"queued", "running", "paused"}

\* the backend's list: job 1 with any of the statuses, alone or followed by the
\* queued job 2
BulkSnapshots ==
  {<<WithStatus(1, st)>> : st \in BulkStatuses}
    \cup {<<WithStatus(1, st), WithStatus(2, "queued")>> : st \in BulkStatuses}

\* Bulk actions: polls, the checkboxes, the four buttons, the confirm dialog (which
\* keeps the table out of reach while open), the answers.
\* the texts typed into the dialog: the required text, the required text in
\* capitals between blanks, a beginning of it
TypedTexts ==
  {requireText, <<Space, "C", "O", "N", "F", "I", "R", "M", Space>>, <<"c", "o", "n">>}

NextBulk ==
  \/ \E S \in BulkSnapshots : SnapshotArrives(S)
  \/ \E id \in Ids : ~confirm.open /\ toggleOne(id)
  \/ \E checked \in BOOLEAN : ~confirm.open /\ toggleAllFiltered(checked)
  \/ \E kind \in BULK_KINDS : ~confirm.open /\ bulkClick(kind)
  \/ ~confirm.open /\ askConfirmDelete
  \/ \E text \in TypedTexts : setVal(text)
  \/ closeConfirm
  \/ onConfirm
  \/ \E b \in 1..MaxBulk, id \in Ids, done \in BOOLEAN : BulkResponds(b, id, done)

SpecBulk == Init /\ [][NextBulk]_vars

\* the claim's eligibility of a status for a bulk action
Eligible(kind, status) ==
  CASE kind = "pause" -> status \in {"queued", "running"}
    [] kind = "resume" -> status \in {"paused", "pausing"}
    [] kind = "cancel" -> status = "running"
    [] OTHER -> status \notin {"running", "pausing"}

\* C23: the ids a bulk action sends requests for are exactly the selected jobs of
\* the current filtered view whose status is eligible for the action.
C23_BulkTargetsAreSelectedAndEligible ==
  [][Len(bulk') > Len(bulk) =>
       LET a == bulk'[Len(bulk')]
       IN a.open = {filteredAll[i].id : i \in {k \in 1..Len(filteredAll) :
                      /\ filteredAll[k].id \in selectedIds
                      /\ Eligible(a.kind, filteredAll[k].status)}}]_vars

\* C24: when the last request of a bulk action is answered, the toast for the
\* whole action is a failure toast when a request of the action failed and the
\* success toast when none failed.
C24_BulkAggregateToastTellsFailure ==
  [][\A b \in 1..MaxBulk, id \in Ids, ok \in BOOLEAN :
       (BulkResponds(b, id, ok) /\ bulk[b].open = {id})
         => LET a == bulk[b]
                anyFailed == a.failed # {} \/ ~ok
            IN /\ anyFailed => BulkToast(a.kind, Len(a.targets)) \notin Range(toasts')
               /\ anyFailed => "Bulk action failed" \in Range(toasts')
               /\ ~anyFailed => BulkToast(a.kind, Len(a.targets)) \in Range(toasts')]_vars

\* C25: when the last request of a bulk delete is answered, the Selection Set is
\* empty, whatever the answers were.
C25_BulkDeleteClearsSelection ==
  [][\A b \in 1..MaxBulk, id \in Ids, ok \in BOOLEAN :
       (BulkResponds(b, id, ok) /\ bulk[b].open = {id} /\ bulk[b].kind = "delete")
         => selectedIds' = {}]_vars

\* a bulk delete of two jobs has just ended with its last request failed, and
\* nothing is selected
C25_Witness ==
  /\ toasts = <<"Delete failed", "Deleted 2 job(s)">>
  /\ selectedIds = {}
  /\ bulk = <<>>
  /\ ~confirm.open

(* ------------------------------ move to top --------------------------- *)

\* C26: move-to-top puts the job first in the Working Order and sends the reorder
\* write with the full order; when that write is answered, with success or with
\* failure, its own toast is pushed and the priority update to 1 is sent, and the
\* Working Order stays; when the priority update is answered, with success or
\* with failure, its own toast is pushed and the Working Order stays.
C26_MoveToTopWritesAreIndependent ==
  [][/\ \A id \in Ids :
          (toTop(id) /\ manualReorderEnabled /\ id \in Range(W))
            => /\ rows'[1].id = id
               /\ inflight' = Append(inflight, Req("topReorder", IdsOf(rows'), id, 1))
     /\ \A n \in 1..MaxInFlight, ok \in BOOLEAN :
          TopReorderResponds(n, ok)
            => /\ inflight'[n] = Req("topPrio", inflight[n].order, inflight[n].id, 1)
               /\ toasts' = onReorder(ok)
               /\ rows' = rows
     /\ \A n \in 1..MaxInFlight, ok \in BOOLEAN :
          TopPriorityResponds(n, ok)
            => /\ toasts' = <<IF ok THEN "Moved to top" ELSE "Failed to move to top">>
               /\ rows' = rows]_vars

(* --------------------------- persisted settings ----------------------- *)

\* The first render of the dashboard and its mount effects: QueueTable reads the
\* page size, the load effect of App reads the four filter keys, and the persist
\* effects write all five keys, first with the initial and then with the loaded
\* values.
Mount ==
  /\ mounted = "no"
  /\ LET l == LoadFilters(storage)
         ps == initialPageSize(storage)
         c == [owner |-> l.owner, status |-> l.status, prio |-> l.prio, q |-> q,
               hide |-> l.hide]
         fa == FilterJobs(jobs, c, prioOverrides)
         st == Settle(fa, TRUE, rows, dirty, lastServerOrderRef)
     IN /\ mounted' = (IF l.raised THEN "crashed" ELSE IF l.set THEN "yes" ELSE "caught")
        /\ ownerFilter' = c.owner
        /\ statusFilter' = c.status
        /\ prioFilter' = c.prio
        /\ hideCompleted' = c.hide
        /\ pageSize' = ps
        /\ storage' = Persisted(c, ps)
        /\ filteredAll' = fa
        /\ rows' = st.rows
        /\ lastServerOrderRef' = st.ref
  /\ selectedIds' = {}
  /\ returned' = "none"
  /\ toasts' = <<>>
  /\ UNCHANGED <<jobs, q, sortVars, prioOverrides, dirty, inflight, stats, bulk, confirm,
                 stopped, lateVars>>
  /\ Repoll(TRUE)

\* what a browser may hold under a filter key: nothing, the empty text, a text
\* that is no JSON, a JSON text that is no array, the JSON text of a list
StoredLists(lists) ==
  {NoItem, Item(JsonText("empty", {})), Item(JsonText("invalid", {})),
   Item(JsonText("other", {}))}
    \cup {Item(JSONstringify(list)) : list \in lists}

\* what a browser may hold under the hide-completed key
StoredHides == {NoItem, Item(<<"1">>), Item(<<"t", "r", "u", "e">>), Item(<<"0">>), Item(<<"y">>)}

\* what a browser may hold under the page-size key
StoredPageSizes ==
  {NoItem, Item(<<>>), Item(<<"1", "0">>), Item(<<"5", "0">>), Item(<<"3", "0">>),
   Item(<<"a">>), Item(<<"1", "0", "x">>), Item(<<Space, "5", "0">>)}

StoredStates ==
  [ownerFilter : StoredLists({{}, {Alice}}),
   statusFilter : StoredLists({{"queued"}}),
   prioFilter : StoredLists({{1}}),
   hideCompletedJobs : StoredHides,
   jobsPageSize : StoredPageSizes]

\* the dashboard about to be mounted in a browser with anything stored
InitLoad ==
  /\ Constructed
  /\ storage \in StoredStates
  /\ mounted = "no"

\* Loading the persisted settings: the mount, then the page size and the
\* hide-completed toggle.
NextLoad ==
  \/ Mount
  \/ \E n \in PAGE_SIZES : mounted # "no" /\ setPageSize(n)
  \/ mounted # "no" /\ ToggleHideCompleted

SpecLoad == InitLoad /\ [][NextLoad]_vars

\* a stored filter list that is missing, no JSON or no array
Malformed(item) == ~item.present \/ item.text.kind # "array"

\* the text is a decimal numeral
IsNumeral(text) == text # <<>> /\ \A i \in 1..Len(text) : IsDigit(text[i])

\* C27: the mount raises no error, whatever is stored; a filter list whose stored
\* value is missing, no JSON or no array is loaded as the empty list, a missing
\* hide-completed key as off, and a page size that is missing, no number or a
\* number outside {10, 25, 50} as 25; the page size loaded is always one of
\* 10, 25, 50.
C27_MalformedStorageLoadsDefaults ==
  [][Mount =>
       /\ mounted' # "crashed"
       /\ Malformed(storage.ownerFilter) => ownerFilter' = {}
       /\ Malformed(storage.statusFilter) => statusFilter' = {}
       /\ Malformed(storage.prioFilter) => prioFilter' = {}
       /\ ~storage.hideCompletedJobs.present => ~hideCompleted'
       /\ pageSize' \in PAGE_SIZES
       /\ (\/ ~storage.jobsPageSize.present
           \/ parseInt(storage.jobsPageSize.text) = NaN
           \/ /\ IsNumeral(storage.jobsPageSize.text)
              /\ parseInt(storage.jobsPageSize.text) \notin PAGE_SIZES)
            => pageSize' = 25]_vars

\* mounted over a stored filter list that was no JSON: the load effect left
\* through its catch, every setting has its default and the defaults were stored
C27_Witness ==
  /\ mounted = "caught"
  /\ Criteria = NoCriteria
  /\ pageSize = 25
  /\ storage = Persisted(NoCriteria, 25)

(* ------------------------ the Snapshot and its overlays --------------- *)

\* the backend's list in the overlay specification: job 1 running or paused in
\* front of job 2, or job 2 in front of the running job 1
ClientSnapshots ==
  {<<WithStatus(1, st), BaseJob(2)>> : st \in {"running", "paused"}}
    \cup {<<BaseJob(2), WithStatus(1, "running")>>}

\* Every writer of an overlay beside the polls: the manual moves, move-to-top,
\* Save Order, a priority edit, the checkboxes, the progress poller, and the
\* answers to their requests.
NextClient ==
  \/ \E S \in ClientSnapshots : SnapshotArrives(S)
  \/ \E a \in Ids, o \in Ids \cup {0} : onDragEnd(a, o)
  \/ \E id \in Ids : moveUp(id)
  \/ \E id \in Ids : moveDown(id)
  \/ \E id \in Ids : toTop(id)
  \/ saveOrder
  \/ \E n \in 1..MaxInFlight, ok \in BOOLEAN : SaveResponds(n, ok)
  \/ \E n \in 1..MaxInFlight, ok \in BOOLEAN : TopReorderResponds(n, ok)
  \/ \E n \in 1..MaxInFlight, ok \in BOOLEAN : TopPriorityResponds(n, ok)
  \/ \E id \in Ids : doSave(id, 1)
  \/ \E n \in 1..MaxInFlight, ok \in BOOLEAN : PriorityResponds(n, ok)
  \/ \E id \in Ids : toggleOne(id)
  \/ IntervalTick
  \/ \E n \in 1..MaxPending : \E results \in Outcomes(n) : ProgressArrives(n, results)

SpecClient == Init /\ [][NextClient]_vars

\* C28: the job list of the Snapshot Store changes only when a poll of the job
\* list completes; moves, move-to-top, saves, priority edits and their rollback,
\* selection changes and progress merges leave it as it is.
C28_OnlyARefreshChangesTheSnapshot ==
  [][jobs' # jobs => \E S \in ClientSnapshots : SnapshotArrives(S)]_vars

\* every overlay holds something of its own while the Snapshot is as it arrived:
\* a dirty Working Order in another order, an override, a selection, a report
C28_Witness ==
  /\ dirty
  /\ IdsOf(jobs) = <<1, 2>>
  /\ W = <<2, 1>>
  /\ jobs[1] = WithStatus(1, "running")
  /\ prioOverrides[2] = 1
  /\ selectedIds = {1}
  /\ progressMap[1] # NoProgress

\* C29: while the reorder write of a move-to-top made on a clean order is under
\* way and the moved job is first in the Working Order, a Snapshot that still
\* has the job list in the order it had before the move leaves the job first.
C29_MoveToTopSurvivesPoll ==
  [][\A S \in ClientSnapshots :
       (/\ SnapshotArrives(S)
        /\ ~dirty
        /\ inflight # <<>>
        /\ inflight[1].kind = "topReorder"
        /\ W = inflight[1].order
        /\ W # IdsOf(jobs)
        /\ S # jobs
        /\ IdsOf(S) = IdsOf(jobs))
         => rows'[1].id = inflight[1].id]_vars

(* ------------------------- a move during a save ----------------------- *)

\* C30: when the write of saveOrder is answered while the order is dirty and the
\* Working Order is another arrangement of the jobs that were sent (a move was
\* made after the write was issued), the Working Order stays as it is and the
\* state stays dirty.
C30_MoveDuringSaveIsKept ==
  [][\A n \in 1..MaxInFlight, ok \in BOOLEAN :
       (/\ SaveResponds(n, ok)
        /\ dirty
        /\ W # inflight[n].order
        /\ Range(W) = Range(inflight[n].order)
        /\ Len(W) = Len(inflight[n].order))
         => (W' = W /\ dirty')]_vars

(* ------------------------- rotation and refreshes --------------------- *)

\* C31: a changed Snapshot that leaves the list of more than BATCH active ids as
\* it is does not send the rotation back to the start: no tick runs with it, or
\* the tick that runs requests the slice at the cursor the last tick left.
C31_SnapshotKeepsRotation ==
  [][\A S \in PollSnapshots :
       (/\ SnapshotArrives(S)
        /\ S # jobs
        /\ idsAll(baseRows') = idsAll(baseRows)
        /\ Len(idsAll(baseRows)) > BATCH
        /\ cursor > 0)
         => \/ cursor' = cursor /\ pending' = pending
            \/ /\ pending' # <<>>
               /\ pending'[Len(pending')][1] = idsAll(baseRows)[cursor + 1]]_vars

(* --------------------------- requests under way ----------------------- *)

\* the progress requests of the running poller that are issued and not answered
RECURSIVE Outstanding(_)
Outstanding(pend) ==
  IF pend = <<>> THEN 0 ELSE Len(Head(pend)) + Outstanding(Tail(pend))

\* C32: at every moment at most BATCH progress requests are issued and not yet
\* answered.
C32_AtMostBatchRequestsOutstanding == Outstanding(pending) <= BATCH

(* ------------------------------ the slice ----------------------------- *)

\* the claim's slice: min(BATCH, N) ids of the list from position c on, the
\* positions taken modulo N
WrappedSlice(ids, c) ==
  [k \in 1..(IF BATCH < Len(ids) THEN BATCH ELSE Len(ids)) |-> ids[((c + k - 1) % Len(ids)) + 1]]

\* C33: an interval tick over N >= 1 active ids requests the min(BATCH, N) ids at
\* the positions cursor, cursor + 1, ... modulo N and advances the cursor by
\* BATCH modulo N.
C33_SliceWrapsAround ==
  [][(IntervalTick /\ idsAll(baseRows) # <<>> /\ cursor < Len(idsAll(baseRows)))
       => /\ pending' = Append(pending, WrappedSlice(idsAll(baseRows), cursor))
          /\ cursor' = (cursor + BATCH) % Len(idsAll(baseRows))]_vars

(* --------------------------- stopped pollers -------------------------- *)

\* mutant: the stop flag is not read
AppliedWhenStopped(stop, pm, slice, results, list) == Evicted(Merged(pm, slice, results), list)

\* tick() behind its await: if (!stop) setProgressMap(...), with the rows of the
\* poller that ran the tick
Applied(stop, pm, slice, results, list) ==
  IF stop THEN pm ELSE Evicted(Merged(pm, slice, results), list)

\* A poll of the job list completes with the list S while the fetches of the
\* poller are followed: the cleanup of the effect sets stop for its cycles.
Supersedes(S) ==
  /\ S # jobs => Len(stopped.cycles) + Len(pending) <= MaxStopped
  /\ Refreshed(S)
  /\ stopped' =
       IF S # jobs
       THEN [stopped EXCEPT
               !.cycles = @ \o [n \in 1..Len(pending) |-> [slice |-> pending[n], list |-> baseRows]]]
       ELSE stopped

\* what the fetches of cycle n of a stopped poller may give
StoppedOutcomes(n) ==
  [(IF n <= Len(stopped.cycles) THEN Range(stopped.cycles[n].slice) ELSE {}) -> 0..MaxProgress]

\* All fetches of cycle n of a stopped poller have settled.
StoppedArrives(n, results) ==
  /\ n \in 1..Len(stopped.cycles)
  /\ progressMap' =
       Applied(TRUE, progressMap, stopped.cycles[n].slice, results, stopped.cycles[n].list)
  /\ stopped' =
       [cycles |-> RemoveAt(stopped.cycles, n),
        last |-> [i \in Ids |-> IF i \in DOMAIN results THEN results[i] ELSE NoProgress]]
  /\ returned' = "none"
  /\ toasts' = <<>>
  /\ UNCHANGED <<jobs, filterVars, sortVars, prioOverrides, filteredAll, orderVars, inflight,
                 cursor, pending, polled, selectedIds, pageSize, storage, mounted, stats, bulk,
                 confirm, lateVars>>

\* the backend's list in the specification of the stopped pollers: jobs 1 and 2,
\* each running or completed
StopSnapshots ==
  {<<WithStatus(1, a), WithStatus(2, b)>> : a, b \in {"running", "completed"}}

\* The poller and the pollers it replaced: polls of the job list, interval ticks,
\* settled fetches of the running and of the stopped pollers.
NextStop ==
  \/ \E S \in StopSnapshots : Supersedes(S)
  \/ IntervalTick
  \/ \E n \in 1..MaxPending : \E results \in Outcomes(n) : ProgressArrives(n, results)
  \/ \E n \in 1..MaxStopped : \E results \in StoppedOutcomes(n) : StoppedArrives(n, results)

SpecStop == Init /\ [][NextStop]_vars

\* C34: when the fetches of a poll cycle settle whose poller was stopped because
\* the table rows it was started for were replaced, the progress overlay stays
\* as it is.
C34_SupersededResultsAreNotApplied ==
  [][\A n \in 1..MaxStopped : \A results \in StoppedOutcomes(n) :
       StoppedArrives(n, results) => progressMap' = progressMap]_vars

\* the cycle of a stopped poller that settled last fetched a report for a job
\* that is still active, and the overlay has no entry or another report for it
C34_Witness ==
  \E i \in Range(idsAll(baseRows)) :
    /\ stopped.last[i] # NoProgress
    /\ progressMap[i] # stopped.last[i]

(* ------------------------ the order that is sent ---------------------- *)

\* the backend's lists of up to GateJobs jobs, in any order
OrderSnapshots ==
  {[i \in 1..Len(o) |-> BaseJob(o[i])] : o \in Arrangements(1..GateJobs, GateJobs)}

\* The Working Order under polls that add, drop and reorder jobs, two filters,
\* the manual moves, move-to-top and Save Order.
NextOrder ==
  \/ \E S \in OrderSnapshots : SnapshotArrives(S)
  \/ ToggleHideCompleted
  \/ ToggleOwner(Alice)
  \/ \E a \in Ids, o \in Ids \cup {0} : onDragEnd(a, o)
  \/ \E id \in Ids : moveUp(id)
  \/ \E id \in Ids : moveDown(id)
  \/ \E id \in Ids : toTop(id)
  \/ saveOrder
  \/ \E n \in 1..MaxInFlight, ok \in BOOLEAN : SaveResponds(n, ok)
  \/ \E n \in 1..MaxInFlight, ok \in BOOLEAN : TopReorderResponds(n, ok)
  \/ \E n \in 1..MaxInFlight, ok \in BOOLEAN : TopPriorityResponds(n, ok)

SpecOrder == Init /\ [][NextOrder]_vars

\* list holds each element of the set ids exactly once and nothing else
ListsExactly(list, ids) ==
  /\ Range(list) = ids
  /\ \A i, j \in 1..Len(list) : list[i] = list[j] => i = j

\* C35: the id list that Save Order or move-to-top sends to the reorder endpoint
\* has no duplicate and holds exactly the ids of the Working Order, which are
\* exactly the ids of the Snapshot.
C35_ReorderSendsTheWholeOrder ==
  [][(Len(inflight') > Len(inflight)
        /\ inflight'[Len(inflight')].kind \in {"save", "topReorder"})
       => /\ ListsExactly(inflight'[Len(inflight')].order, Range(IdsOf(rows')))
          /\ ListsExactly(inflight'[Len(inflight')].order, Range(IdsOf(jobs')))]_vars

\* move-to-top has sent the order of all jobs, which is not the Snapshot's
C35_Witness ==
  /\ inflight # <<>>
  /\ inflight[1].kind = "topReorder"
  /\ Len(inflight[1].order) = GateJobs
  /\ inflight[1].order # IdsOf(jobs)
  /\ inflight[1].order = W

(* ---------------------- the order and the filtered view --------------- *)

\* C36: the Working Order holds each id of the filtered view exactly once and no
\* other id, clean or dirty.
C36_WorkingOrderIsPermutationOfView ==
  /\ ListsExactly(W, Range(IdsOf(filteredAll)))
  /\ Len(W) = Len(filteredAll)

\* a dirty order of all jobs, in another order than the view, with a write of
\* the order under way
C36_Witness ==
  /\ dirty
  /\ Len(filteredAll) = GateJobs
  /\ W # IdsOf(filteredAll)
  /\ inflight # <<>>

(* ------------------------- a filter on and off ------------------------ *)

\* the Working Order after the criteria are set to c with the rows rws, as
\* ApplyCriteria leaves it
RowsUnder(c, rws) ==
  Settle(FilterJobs(jobs, c, prioOverrides), TRUE, rws, dirty, lastServerOrderRef).rows

\* C37: in a dirty state, switching hide-completed or the owner filter on and,
\* with the same Snapshot, off again gives back the Working Order there was
\* before.
C37_FilterRoundTripKeepsOrder ==
  (dirty /\ ~filtersActive)
    => \A on \in {[Criteria EXCEPT !.hide = TRUE], [Criteria EXCEPT !.owner = {Alice}]} :
         IdsOf(RowsUnder(Criteria, RowsUnder(on, rows))) = W

(* ------------------------------ pagination ---------------------------- *)

\* Math.max(1, Math.ceil(baseRows.length / pageSize))
pageCount(len, size) ==
  IF (len + size - 1) \div size > 1 THEN (len + size - 1) \div size ELSE 1

\* mutant: the requested page is used as it is
safePageUnclamped(requested, count) == requested

\* Math.min(page, pageCount)
safePage(requested, count) == IF requested < count THEN requested ELSE count

\* baseRows.slice(start, end): the positions (1-based) of the rows shown, the
\* two ends clamped to the length as slice does
paged(len, size, requested) ==
  LET start == (safePage(requested, pageCount(len, size)) - 1) * size
      end == start + size
      from == IF start < len THEN start ELSE len
      to == IF end < len THEN end ELSE len
  IN [i \in 1..(to - from) |-> from + i]

\* the numbered page buttons: 1, the last page, the current page and the two
\* after it, as far as they exist
pageButtons(len, size, requested) ==
  LET total == pageCount(len, size)
      cur == safePage(safePage(requested, total), total)
  IN {n \in {1, total, cur, cur + 1, cur + 2} : n >= 1 /\ n <= total}

\* the state the page controls do not touch
PagerFrame ==
  /\ returned' = "none"
  /\ toasts' = <<>>
  /\ UNCHANGED <<jobs, filterVars, sortVars, prioOverrides, filteredAll, orderVars, inflight,
                 pollVars, selectedIds, pageSize, storage, mounted, stats, bulk, confirm,
                 stopped, val, rowReqs, exports>>

\* Prev, shown when the effective page is not the first
goPrev ==
  /\ safePage(pager.page, pageCount(pager.len, pageSize)) > 1
  /\ pager' = [pager EXCEPT !.page = IF @ - 1 > 1 THEN @ - 1 ELSE 1]
  /\ PagerFrame

\* Next, shown when the effective page is not the last
goNext ==
  /\ safePage(pager.page, pageCount(pager.len, pageSize))
       < pageCount(pager.len, pageSize)
  /\ pager' = [pager EXCEPT
                 !.page = IF @ + 1 < pageCount(pager.len, pageSize)
                          THEN @ + 1 ELSE pageCount(pager.len, pageSize)]
  /\ PagerFrame

\* a numbered page button
goPage(p) ==
  /\ p \in pageButtons(pager.len, pageSize, pager.page)
  /\ pager' = [pager EXCEPT !.page = p]
  /\ PagerFrame

\* a change of the search text or of a filter: setPage(1), and the table has n
\* rows
CriteriaChange(n) ==
  /\ n \in 0..MaxRows
  /\ pager' = [len |-> n, page |-> 1]
  /\ PagerFrame

\* the table rows become n rows (a poll, a deletion): the requested page stays
RowsChange(n) ==
  /\ n \in 0..MaxRows
  /\ pager' = [pager EXCEPT !.len = n]
  /\ PagerFrame

\* The page controls over a table of up to MaxRows rows.
NextPage ==
  \/ goPrev
  \/ goNext
  \/ \E p \in 1..MaxRows : goPage(p)
  \/ \E n \in PAGE_SIZES : setPageSize(n)
  \/ \E n \in 0..MaxRows : CriteriaChange(n)
  \/ \E n \in 0..MaxRows : RowsChange(n)

SpecPage == Init /\ [][NextPage]_vars

\* the number of pages of `size` rows that hold `len` rows: the least k with
\* k * size >= len
PagesFor(len, size) == CHOOSE k \in 0..len : k * size >= len /\ \A m \in 0..(k - 1) : m * size < len

\* C38: the effective page is between 1 and max(1, ceil(rows / pageSize)); the
\* rows shown are at most pageSize, a contiguous run of the ordered rows, and at
\* least one when there is a row.
C38_PageWindowIsValid ==
  LET len == pager.len
      size == pageSize
      page == safePage(pager.page, pageCount(len, size))
      shown == paged(len, size, pager.page)
  IN /\ size \in PAGE_SIZES
     /\ page >= 1
     /\ page <= (IF PagesFor(len, size) > 1 THEN PagesFor(len, size) ELSE 1)
     /\ Len(shown) <= size
     /\ \A i \in 1..Len(shown) : shown[i] \in 1..len
     /\ \A i \in 1..(Len(shown) - 1) : shown[i + 1] = shown[i] + 1
     /\ len >= 1 => shown # <<>>

\* page 3 was requested with 10 rows per page and the table shrank to 11 rows:
\* the second page shows the one row left on it
C38_Witness ==
  /\ pager.page = 3
  /\ pageSize = 10
  /\ pager.len = 11
  /\ paged(pager.len, pageSize, pager.page) = <<11>>

(* ----------------------------- confirmation --------------------------- *)

\* Cancel, Delete, Reset job or Reset failed tasks in the menu of the row of job
\* id: askConfirm keeps the handler of App with that id as the action of the
\* dialog
askConfirmRow(kind, id) ==
  /\ kind \in ROW_KINDS
  /\ id \in pageIds
  /\ rowEnabled(kind, ById(filteredAll, id))
  /\ confirm' = [open |-> TRUE, kind |-> kind, id |-> id, fa |-> <<>>, selected |-> {}]
  /\ val' = <<>>
  /\ toasts' = <<>>
  /\ UNCHANGED <<bulk, selectedIds, rowReqs>>
  /\ ConfirmFrame

\* the request of a confirmed row action is answered: the handler of App pushes
\* its toast and the dialog is closed
RowResponds(n, done) ==
  /\ n \in 1..Len(rowReqs)
  /\ rowReqs' = RemoveAt(rowReqs, n)
  /\ toasts' = <<RowToast(rowReqs[n].kind, done)>>
  /\ confirm' = NoConfirm
  /\ UNCHANGED <<bulk, selectedIds, val>>
  /\ ConfirmFrame

\* The confirm dialog: the row actions and the bulk delete that open it, the
\* typed text, Confirm and Cancel, and the answers to the requests.
NextConfirm ==
  \/ \E S \in BulkSnapshots : SnapshotArrives(S)
  \/ \E id \in Ids : ~confirm.open /\ toggleOne(id)
  \/ ~confirm.open /\ askConfirmDelete
  \/ \E kind \in ROW_KINDS, id \in Ids : ~confirm.open /\ askConfirmRow(kind, id)
  \/ \E text \in TypedTexts : setVal(text)
  \/ closeConfirm
  \/ onConfirm
  \/ \E b \in 1..MaxBulk, id \in Ids, done \in BOOLEAN : BulkResponds(b, id, done)
  \/ \E n \in 1..MaxRowReqs, done \in BOOLEAN : RowResponds(n, done)

SpecConfirm == Init /\ [][NextConfirm]_vars

\* C39: a request of a row cancel, delete, reset or reset-failed, or of a bulk
\* delete, is issued only in a step taken with the dialog open for that action
\* and the typed text, trimmed and in lower case, equal to 'confirm'; closing the
\* dialog issues no request.
C39_RequestsNeedTypedConfirm ==
  [][/\ Len(rowReqs') > Len(rowReqs)
        => /\ confirm.open
           /\ ToLowerCase(Trim(val)) = <<"c", "o", "n", "f", "i", "r", "m">>
           /\ confirm.kind \in ROW_KINDS
           /\ rowReqs'[Len(rowReqs')] = [kind |-> confirm.kind, id |-> confirm.id]
     /\ (Len(bulk') > Len(bulk) /\ bulk'[Len(bulk')].kind = "delete")
        => /\ confirm.open
           /\ ToLowerCase(Trim(val)) = <<"c", "o", "n", "f", "i", "r", "m">>
           /\ confirm.kind = "bulkDelete"
     /\ closeConfirm => (rowReqs' = rowReqs /\ bulk' = bulk)]_vars

\* the delete of job 1 was sent from the dialog with " CONFIRM " typed, and the
\* dialog is still open
C39_Witness ==
  /\ rowReqs = <<[kind |-> "delete", id |-> 1]>>
  /\ confirm.open
  /\ confirm.kind = "delete"
  /\ val = <<Space, "C", "O", "N", "F", "I", "R", "M", Space>>

(* ------------------------------- export ------------------------------- *)

MaxExports == 1
MaxStatusReqs == 2

\* what api.exportStatus answers with
EXPORT_STATUS == {"creating", "ready", "expired", "failed"}

\* an export the Export item of a row menu started: the call of onExport, its
\* interval timer, the status requests not answered yet, the status the server
\* holds, and what the callbacks of the timer did so far
NewExport(id) ==
  [id |-> id, phase |-> "starting", server |-> "creating", reqs |-> 0, terminal |-> 0,
   redirects |-> 0]

ExportFrame ==
  /\ returned' = "none"
  /\ UNCHANGED <<jobs, filterVars, sortVars, prioOverrides, filteredAll, orderVars, inflight,
                 pollVars, selectedIds, pageSize, storage, mounted, stats, bulk, confirm,
                 stopped, pager, val, rowReqs>>

\* Export in the menu of the row of job id: api.export is requested
onExport(id) ==
  /\ id \in pageIds
  /\ Len(exports) < MaxExports
  /\ exports' = Append(exports, NewExport(id))
  /\ toasts' = <<>>
  /\ ExportFrame

\* api.export answers: the timer is started, or the outer catch reports
ExportStarts(e, done) ==
  /\ e \in 1..Len(exports)
  /\ exports[e].phase = "starting"
  /\ exports' = [exports EXCEPT ![e].phase = IF done THEN "polling" ELSE "notStarted"]
  /\ toasts' = (IF done THEN <<"Export started">> ELSE <<"Export failed to start">>)
  /\ ExportFrame

\* the server finishes or fails the export, or lets a ready one expire
ExportAdvances(e, st) ==
  /\ e \in 1..Len(exports)
  /\ exports[e].phase # "notStarted"
  /\ \/ exports[e].server = "creating" /\ st \in {"ready", "failed"}
     \/ exports[e].server = "ready" /\ st = "expired"
  /\ exports' = [exports EXCEPT ![e].server = st]
  /\ toasts' = <<>>
  /\ ExportFrame

\* the interval of 3000 ms elapses while the timer is not cleared: the callback
\* requests api.exportStatus, whether or not an earlier request was answered
ExportTimer(e) ==
  /\ e \in 1..Len(exports)
  /\ exports[e].phase = "polling"
  /\ exports[e].reqs < MaxStatusReqs
  /\ exports' = [exports EXCEPT ![e].reqs = @ + 1]
  /\ toasts' = <<>>
  /\ ExportFrame

\* what a callback of the timer does with the answer of its status request:
\* done is FALSE when the request failed
statusAnswered(x, done) ==
  LET st == x.server
      answered == [x EXCEPT !.reqs = @ - 1]
      cleared == [answered EXCEPT !.phase = "cleared", !.terminal = @ + 1]
  IN IF ~done THEN [export |-> cleared, toasts |-> <<"Export failed">>]
     ELSE IF st = "ready"
          THEN [export |-> [cleared EXCEPT !.redirects = @ + 1],
                toasts |-> <<"Export ready">>]
     ELSE IF st \in {"failed", "expired"}
          THEN [export |-> cleared,
                toasts |-> <<IF st = "failed" THEN "Export failed" ELSE "Export expired">>]
     ELSE [export |-> answered, toasts |-> <<>>]

\* a status request is answered
StatusResponds(e, done) ==
  /\ e \in 1..Len(exports)
  /\ exports[e].reqs > 0
  /\ \E r \in {statusAnswered(exports[e], done)} :
       /\ exports' = [exports EXCEPT ![e] = r.export]
       /\ toasts' = r.toasts
  /\ ExportFrame

\* The export of a job: the rows of the table, the Export item, the timer and
\* the answers of the server.
NextExport ==
  \/ \E S \in StopSnapshots : SnapshotArrives(S)
  \/ \E id \in Ids : onExport(id)
  \/ \E e \in 1..MaxExports, done \in BOOLEAN : ExportStarts(e, done)
  \/ \E e \in 1..MaxExports, st \in EXPORT_STATUS : ExportAdvances(e, st)
  \/ \E e \in 1..MaxExports : ExportTimer(e)
  \/ \E e \in 1..MaxExports, done \in BOOLEAN : StatusResponds(e, done)

SpecExport == Init /\ [][NextExport]_vars

\* C40: for each started export the timer is cleared by the first terminal
\* answer (ready, failed, expired, or a failed status request), a cleared timer
\* has produced exactly one terminal toast, and no export produces more than one
\* terminal toast or more than one redirect to the download.
C40_ExportPollingEndsExactlyOnce ==
  \A e \in 1..Len(exports) :
    /\ exports[e].terminal <= 1
    /\ exports[e].redirects <= 1
    /\ exports[e].phase = "cleared" <=> exports[e].terminal >= 1

====
